---- MODULE Spec2Model ----
(***************************************************************************)
(* Model of the chainsop pipeline engine: ChainedOps, its stage handles    *)
(* (ChainedOpRef), the SubProcOperation / FunctionOperation stages, the    *)
(* FileArg -> ActualFile materialization and the lifetime of temp files.   *)
(***************************************************************************)
EXTENDS Integers, Sequences, FiniteSets, TLC

VARIABLES
    chain,          \* ChainedOpsInternals.chain : Vec<RunnableOp>
    files,          \* ChainedOpsInternals.files : FileTransformation (inputs, output)
    opstate,        \* ChainedOpsInternals.opstate, as the set of indices mapped to Disabled
    preset_inputs,  \* ChainedOpsInternals.preset_inputs, as a set of indices
    cfg_inp,        \* history: per stage, the input list the user configured
    cfg_args,       \* history: per stage, the arguments pushed on its handle, in order
    pc,             \* "idle" | "setup" | "run": where ChainedOps::execute stands
    op_idxs,        \* execute_chain's op_idxs: enabled indices still to run, next one first
    tgtdir,         \* execute_chain's cwd: the tgtdir computed by ChainedOps::execute
    frames,         \* outfile of every completed stage, held by its execute_chain frame
    cur,            \* files materialized for the stage being run (its _inpfiles, outfile)
    calls,          \* history: what the Executor was handed during the latest execute
    result,         \* what the latest execute returned
    live,           \* ids of the temp files that exist
    held,           \* ids of the temp files owned by ActualFiles the caller still holds
    nextTemp,       \* number of temp files created so far
    globres,        \* <<>> before the first glob_search, then <<its answer>>
    globbed,        \* history: did the latest execute reach a glob_search
    nexec,          \* chlock's counter: number of execute calls so far
    prev,           \* history: the previous execute's calls, while no builder call followed
    pre,            \* history: chain, first and last enabled index when execute started
    failed,         \* history: the stage whose error the latest execute returned, and where
    env,            \* SubProcOperation.env : EnvSpec, of a stage being configured
    envlog,         \* history: the EnvSpec calls made on env, each with the spec it was made on
    spawned,        \* history: the latest child process Executor::run_executable spawned
    applied,        \* a call of a function of ActualFile: its arguments, and what it returned
    chlock,         \* per ChainedOps, its chlock : RwLock<u32>
    chops,          \* per ChainedOps, its chops : RefCell<ChainedOpsInternals>
    thr,            \* per caller, where its call of ChainedOps::execute stands
    hist            \* history: returns, panics and handle calls of those executes

prog  == <<chain, files, opstate, preset_inputs>>
exec  == <<pc, op_idxs, tgtdir, frames, cur>>
os    == <<live, held, nextTemp, globres>>
vars  == <<chain, files, opstate, preset_inputs, cfg_inp, cfg_args, pc, op_idxs, tgtdir,
           frames, cur,
           calls, result, live, held, nextTemp, globres, globbed, nexec, prev, pre,
           failed, env, envlog, spawned, applied, chlock, chops, thr, hist>>
sync  == <<chlock, chops, thr, hist>>
envs  == <<env, envlog, spawned, applied, sync>>

(***************************************************************************)
(* Bounds of the exploration.                                              *)
(***************************************************************************)
MaxStages == 2
MaxExecs  == 2

(***************************************************************************)
(* FileArg, FileRef, ActualFile.                                           *)
(***************************************************************************)
Loc(p)    == [tag |-> "Loc", path |-> p]
GlobIn(g) == [tag |-> "GlobIn", path |-> g]
Temp(sfx) == [tag |-> "Temp", path |-> sfx]
TBD       == [tag |-> "TBD", path |-> ""]

TempPath(id) == "tmp" \o ToString(id)

StaticFile(p) == [kind |-> "StaticFile", path |-> p, id |-> 0]
TempFile(id)  == [kind |-> "TempFile", path |-> TempPath(id), id |-> id]

NoActualFile   == [tag |-> "NoActualFile", refs |-> <<>>]
SingleFile(r)  == [tag |-> "SingleFile", refs |-> <<r>>]
MultiFile(rs)  == [tag |-> "MultiFile", refs |-> rs]

\* Option<PathBuf> for a directory: None, or Some of a path that is absolute or
\* relative and has a list of components
None      == <<>>
Some(d)   == <<d>>
Abs(segs) == [abs |-> TRUE, segs |-> segs]
Rel(segs) == [abs |-> FALSE, segs |-> segs]

\* Path::join: an absolute path replaces self, a relative one is added to it
Path_join(self, path) ==
    IF path.abs THEN path ELSE [abs |-> self.abs, segs |-> self.segs \o path.segs]

\* slice::join of strings
RECURSIVE join(_, _)
join(ss, sep) ==
    IF ss = <<>> THEN ""
    ELSE IF Len(ss) = 1 THEN ss[1]
    ELSE ss[1] \o sep \o join(Tail(ss), sep)

\* the text of a directory path
PathStr(d) == (IF d.abs THEN "/" ELSE "") \o join(d.segs, "/")

FileTransformation_new == [inp |-> <<>>, out |-> TBD, in_dir |-> None]

has_input_file(ft) == ft.inp # <<>>

\* anything but TBD taken for an explicit output
has_explicit_output_file_set(ft) == ft.out.tag # "TBD"

has_explicit_output_file(ft) == ft.out.tag = "Loc"

\* an extend that keeps self when it has a file
extend_self(self, more) == IF self.tag = "NoActualFile" THEN more ELSE self

\* ActualFile::extend, arm by arm
extend(self, more) ==
    CASE self.tag = "NoActualFile" -> more
      [] self.tag = "SingleFile" ->
            (CASE more.tag = "NoActualFile" -> self
               [] more.tag = "SingleFile"   -> MultiFile(self.refs \o more.refs)
               [] more.tag = "MultiFile"    -> MultiFile(more.refs \o self.refs))
      [] self.tag = "MultiFile" ->
            (CASE more.tag = "NoActualFile" -> self
               [] more.tag = "SingleFile"   -> MultiFile(self.refs \o more.refs)
               [] more.tag = "MultiFile"    -> MultiFile(self.refs \o more.refs))

PathsOf(refs) == [k \in 1..Len(refs) |-> refs[k].path]

\* ActualFile::get_path: the file's path pushed onto cwd; a temp file's path is
\* absolute and replaces cwd, the static paths used here are relative
get_path(cwd, fref) ==
    IF cwd = None \/ fref.kind = "TempFile"
    THEN fref.path
    ELSE PathStr(cwd[1]) \o "/" \o fref.path

\* ActualFile::to_path
to_path(cwd, af) ==
    CASE af.tag = "SingleFile" ->
            [ok |-> TRUE, err |-> "", path |-> get_path(cwd, af.refs[1])]
      [] af.tag = "NoActualFile" ->
            [ok |-> FALSE, err |-> "ErrorMissingFile", path |-> ""]
      [] af.tag = "MultiFile" ->
            [ok |-> FALSE, err |-> "ErrorUnsupportedActualFile", path |-> ""]

\* ActualFile::to_paths
to_paths_from(cwd, af) ==
    IF af.tag = "NoActualFile"
    THEN [ok |-> FALSE, paths |-> <<>>]
    ELSE [ok |-> TRUE, paths |-> [k \in 1..Len(af.refs) |-> get_path(cwd, af.refs[k])]]

\* ActualFile::to_paths with cwd = None: only NoActualFile is an error (ErrorMissingFile)
to_paths(af) ==
    IF af.tag = "NoActualFile"
    THEN [ok |-> FALSE, paths |-> <<>>]
    ELSE [ok |-> TRUE, paths |-> PathsOf(af.refs)]

\* ids of the temp files an ActualFile owns
TempsOf(af) == {af.refs[k].id : k \in {j \in 1..Len(af.refs) : af.refs[j].kind = "TempFile"}}


(***************************************************************************)
(* Materialization (filehandling/accesses.rs, operations/subproc.rs,       *)
(* operations/function.rs).  A materialization threads a record            *)
(*   [ok, next, af, obs]                                                   *)
(* ok: no error so far; next: temp files created so far; af: the           *)
(* ActualFile built; obs: the paths handed on, in the order handed.        *)
(* tmpok says whether the Executor's mk_tempfile succeeds, gl is what its  *)
(* glob_search answers ([ok, files]).                                      *)
(***************************************************************************)
StaticRefs(fs) == [k \in 1..Len(fs) |-> StaticFile(fs[k])]

\* a setup_file that takes a TBD for no file, whatever on_missing is
setup_file_lenient(candidate, missing_default, next, tmpok, gl) ==
    CASE candidate.tag = "TBD" ->
            [ok |-> TRUE, af |-> NoActualFile, next |-> next, err |-> ""]
      [] candidate.tag = "Temp" ->
            IF tmpok
            THEN [ok |-> TRUE, af |-> SingleFile(TempFile(next + 1)), next |-> next + 1,
                  err |-> ""]
            ELSE [ok |-> FALSE, af |-> NoActualFile, next |-> next, err |-> "io::Error"]
      [] candidate.tag = "Loc" ->
            [ok |-> TRUE, af |-> SingleFile(StaticFile(candidate.path)), next |-> next,
             err |-> ""]
      [] candidate.tag = "GlobIn" ->
            IF gl.ok
            THEN [ok |-> TRUE, af |-> MultiFile(StaticRefs(gl.files)), next |-> next,
                  err |-> ""]
            ELSE [ok |-> FALSE, af |-> NoActualFile, next |-> next, err |-> "GlobError"]

\* setup_file; on_missing is modelled by missing_default: TRUE for the closure
\* || Ok(NoActualFile), FALSE for the closure returning ErrorMissingFile; err
\* names the error of a failure: ErrorMissingFile, the io::Error of
\* mk_tempfile, or the error of glob_search
setup_file(candidate, missing_default, next, tmpok, gl) ==
    CASE candidate.tag = "TBD" ->
            [ok |-> missing_default, af |-> NoActualFile, next |-> next,
             err |-> IF missing_default THEN "" ELSE "ErrorMissingFile"]
      [] candidate.tag = "Temp" ->
            IF tmpok
            THEN [ok |-> TRUE, af |-> SingleFile(TempFile(next + 1)), next |-> next + 1,
                  err |-> ""]
            ELSE [ok |-> FALSE, af |-> NoActualFile, next |-> next, err |-> "io::Error"]
      [] candidate.tag = "Loc" ->
            [ok |-> TRUE, af |-> SingleFile(StaticFile(candidate.path)), next |-> next,
             err |-> ""]
      [] candidate.tag = "GlobIn" ->
            IF gl.ok
            THEN [ok |-> TRUE, af |-> MultiFile(StaticRefs(gl.files)), next |-> next,
                  err |-> ""]
            ELSE [ok |-> FALSE, af |-> NoActualFile, next |-> next, err |-> "GlobError"]

\* get_inpfile, get_outfile: the ExeFileSpec of the stage's Executable; the
\* flag is the String of Option(String)
get_inpfile(op) == [tag |-> op.inspec, flag |-> op.inflag]
get_outfile(op) == [tag |-> op.outspec, flag |-> op.outflag]

\* String::ends_with("=") on the option flags in use
ends_with_eq(optflag) == optflag \in {"-i=", "-o="}

\* a materialization that names the files as seen from outside its cwd
paths_cwd_own(cwd) == cwd

\* the cwd that setup_exe_file gives to to_paths: &None, whatever its own cwd is
paths_cwd(cwd) == None

\* what one call of setup_exe_file pushes to args for the paths pths of its
\* file; a ViaCall function is taken to push nothing
file_args(spec, pths) ==
    CASE spec.tag = "Append" -> pths
      [] spec.tag = "Option" ->
            IF ends_with_eq(spec.flag)
            THEN <<spec.flag \o join(pths, ",")>>
            ELSE <<spec.flag, join(pths, ",")>>
      [] spec.tag = "ViaCall" -> <<>>

\* SubProcOperation::setup_exe_file: the ActualFile, the paths put into args
\* and args after the call; via is the directory handed to the function of a
\* ViaCall, err the error of a failure
setup_exe_file(args, cwd, spec, candidate, next, tmpok, gl) ==
    IF spec.tag = "NoFileUsed"
    THEN [ok |-> TRUE, af |-> NoActualFile, next |-> next, obs |-> <<>>, args |-> args,
          err |-> "", via |-> <<>>]
    ELSE LET pushed(sf, pths) ==
                 IF sf.ok /\ spec.tag = "ViaCall"
                 THEN [ok |-> TRUE, af |-> sf.af, next |-> sf.next, obs |-> pths.paths,
                       args |-> args \o file_args(spec, pths.paths), err |-> "",
                       via |-> <<cwd>>]
                 ELSE IF sf.ok /\ pths.ok
                 THEN [ok |-> TRUE, af |-> sf.af, next |-> sf.next, obs |-> pths.paths,
                       args |-> args \o file_args(spec, pths.paths), err |-> "",
                       via |-> <<>>]
                 ELSE [ok |-> FALSE, af |-> sf.af, next |-> sf.next, obs |-> <<>>,
                       args |-> args, via |-> <<>>,
                       err |-> IF sf.ok THEN "ErrorMissingFile" ELSE sf.err]
             named(sf) == pushed(sf, to_paths_from(paths_cwd(cwd), sf.af))
         IN  named(setup_file(candidate, FALSE, next, tmpok, gl))

\* the try_fold over inp_filenames of SubProcOperation::cmd_file_setup
RECURSIVE exe_inputs(_, _, _, _, _, _, _)
exe_inputs(spec, inps, k, acc, cwd, tmpok, gl) ==
    IF k > Len(inps) \/ ~acc.ok THEN acc
    ELSE LET fold(r) ==
                 exe_inputs(spec, inps, k + 1,
                            [ok |-> r.ok, next |-> r.next,
                             af |-> IF r.ok THEN extend(acc.af, r.af) ELSE acc.af,
                             obs |-> acc.obs \o r.obs, args |-> r.args,
                             err |-> r.err, via |-> acc.via \o r.via],
                            cwd, tmpok, gl)
         IN  fold(setup_exe_file(acc.args, cwd, spec, inps[k], acc.next, tmpok, gl))

\* the try_fold over inp_filenames of FunctionOperation::execute
RECURSIVE fun_inputs(_, _, _, _, _)
fun_inputs(inps, k, acc, tmpok, gl) ==
    IF k > Len(inps) \/ ~acc.ok THEN acc
    ELSE LET fold(r) ==
                 fun_inputs(inps, k + 1,
                            [ok |-> r.ok, next |-> r.next,
                             af |-> IF r.ok THEN extend(acc.af, r.af) ELSE acc.af,
                             obs |-> <<>>, err |-> r.err],
                            tmpok, gl)
         IN  fold(setup_file(inps[k], TRUE, acc.next, tmpok, gl))

Acc0(next) == [ok |-> TRUE, next |-> next, af |-> NoActualFile, obs |-> <<>>, err |-> ""]

Acc(args, next) ==
    [ok |-> TRUE, next |-> next, af |-> NoActualFile, obs |-> <<>>, args |-> args,
     err |-> "", via |-> <<>>]

\* the output first whenever it is given by option
emit_output_file_first_any(op) == op.outspec = "Option"

emit_output_file_first(op) == op.outspec = "Option" /\ op.inspec = "Append"

\* SubProcOperation::finalize_args, cmd_file_setup: args starts as a clone of
\* the stage's args; the result is [ok, next, inp, out, inobs, outobs, args]
cmd_file_setup(op, cwd, next, tmpok, gl) ==
    IF emit_output_file_first(op)
    THEN LET both(o, i) ==
                 IF ~o.ok
                 THEN [ok |-> FALSE, next |-> o.next, inp |-> NoActualFile,
                       out |-> NoActualFile, inobs |-> <<>>, outobs |-> <<>>,
                       args |-> <<>>, err |-> o.err, via |-> <<>>]
                 ELSE [ok |-> i.ok, next |-> i.next, inp |-> i.af, out |-> o.af,
                       inobs |-> i.obs, outobs |-> o.obs, args |-> i.args,
                       err |-> i.err, via |-> o.via \o i.via]
             inputs(o) ==
                 both(o, exe_inputs(get_inpfile(op), op.files.inp, 1, Acc(o.args, o.next),
                                    cwd, tmpok, gl))
         IN  inputs(setup_exe_file(op.args, cwd, get_outfile(op), op.files.out, next,
                                   tmpok, gl))
    ELSE LET both(i, o) ==
                 IF ~i.ok
                 THEN [ok |-> FALSE, next |-> i.next, inp |-> NoActualFile,
                       out |-> NoActualFile, inobs |-> <<>>, outobs |-> <<>>,
                       args |-> <<>>, err |-> i.err, via |-> <<>>]
                 ELSE [ok |-> o.ok, next |-> o.next, inp |-> i.af, out |-> o.af,
                       inobs |-> i.obs, outobs |-> o.obs, args |-> o.args,
                       err |-> o.err, via |-> i.via \o o.via]
             output(i) ==
                 both(i, setup_exe_file(i.args, cwd, get_outfile(op), op.files.out, i.next,
                                        tmpok, gl))
         IN  output(exe_inputs(get_inpfile(op), op.files.inp, 1, Acc(op.args, next),
                               cwd, tmpok, gl))

\* the materialization of FunctionOperation::execute; run_function is handed
\* the two ActualFiles, so what it observes are their files in their order
fun_file_setup(op, next, tmpok, gl) ==
    LET both(i, o) ==
            IF ~i.ok
            THEN [ok |-> FALSE, next |-> i.next, inp |-> NoActualFile,
                  out |-> NoActualFile, inobs |-> <<>>, outobs |-> <<>>, args |-> <<>>,
                  err |-> i.err, via |-> <<>>]
            ELSE [ok |-> o.ok, next |-> o.next, inp |-> i.af, out |-> o.af,
                  inobs |-> PathsOf(i.af.refs), outobs |-> PathsOf(o.af.refs),
                  args |-> <<>>, err |-> o.err, via |-> <<>>]
        output(i) == both(i, setup_file(op.files.out, TRUE, i.next, tmpok, gl))
    IN  output(fun_inputs(op.files.inp, 1, Acc0(next), tmpok, gl))

\* RunnableOp::execute up to the call of the Executor
stage_setup(op, cwd, next, tmpok, gl) ==
    IF op.kind = "Exec" THEN cmd_file_setup(op, cwd, next, tmpok, gl)
                        ELSE fun_file_setup(op, next, tmpok, gl)

\* does materializing op ask the Executor for a glob / a temp file?
UsesGlob(op) ==
    \/ \E k \in 1..Len(op.files.inp) :
          op.files.inp[k].tag = "GlobIn" /\ (op.kind = "Call" \/ op.inspec # "NoFileUsed")
    \/ op.files.out.tag = "GlobIn" /\ (op.kind = "Call" \/ op.outspec # "NoFileUsed")


(***************************************************************************)
(* EnvSpec (execution.rs): a spec is a terminator, StdEnv or BlankEnv, or  *)
(* a node over a nested spec se; the outermost node is the latest one.     *)
(***************************************************************************)
StdEnv   == [tag |-> "StdEnv"]
BlankEnv == [tag |-> "BlankEnv"]
EnvAdd(n, v, se)        == [tag |-> "EnvAdd", n |-> n, v |-> v, s |-> "", se |-> se]
EnvPrepend(n, v, s, se) == [tag |-> "EnvPrepend", n |-> n, v |-> v, s |-> s, se |-> se]
EnvAppend(n, v, s, se)  == [tag |-> "EnvAppend", n |-> n, v |-> v, s |-> s, se |-> se]
EnvRemove(n, se)        == [tag |-> "EnvRemove", n |-> n, v |-> "", s |-> "", se |-> se]

IsTerminator(e) == e.tag \in {"StdEnv", "BlankEnv"}

\* enum Elide
Elide_All(var_name)        == [kind |-> "All", var |-> var_name]
Elide_ForAppend(var_name)  == [kind |-> "ForAppend", var |-> var_name]
Elide_ForPrepend(var_name) == [kind |-> "ForPrepend", var |-> var_name]

\* an elide whose ForPrepend and ForAppend keep an EnvRemove of the variable
RECURSIVE elide_keep_remove(_, _)
elide_keep_remove(self, what) ==
    CASE self.tag = "EnvAdd" ->
            IF self.n = what.var THEN self.se
            ELSE [self EXCEPT !.se = elide_keep_remove(self.se, what)]
      [] self.tag = "EnvRemove" ->
            IF what.kind = "All" /\ self.n = what.var THEN self.se
            ELSE [self EXCEPT !.se = elide_keep_remove(self.se, what)]
      [] self.tag = "EnvPrepend" ->
            IF what.kind \in {"All", "ForPrepend"} /\ self.n = what.var THEN self.se
            ELSE [self EXCEPT !.se = elide_keep_remove(self.se, what)]
      [] self.tag = "EnvAppend" ->
            IF what.kind \in {"All", "ForAppend"} /\ self.n = what.var THEN self.se
            ELSE [self EXCEPT !.se = elide_keep_remove(self.se, what)]
      [] self.tag = "StdEnv" -> StdEnv
      [] self.tag = "BlankEnv" -> BlankEnv

\* EnvSpec::elide: the first node that what matches is dropped, and the spec
\* nested in it is kept as it is
RECURSIVE elide(_, _)
elide(self, what) ==
    CASE self.tag \in {"EnvAdd", "EnvRemove"} ->
            IF self.n = what.var THEN self.se
            ELSE [self EXCEPT !.se = elide(self.se, what)]
      [] self.tag = "EnvPrepend" ->
            IF what.kind \in {"All", "ForPrepend"} /\ self.n = what.var THEN self.se
            ELSE [self EXCEPT !.se = elide(self.se, what)]
      [] self.tag = "EnvAppend" ->
            IF what.kind \in {"All", "ForAppend"} /\ self.n = what.var THEN self.se
            ELSE [self EXCEPT !.se = elide(self.se, what)]
      [] self.tag = "StdEnv" -> StdEnv
      [] self.tag = "BlankEnv" -> BlankEnv

\* a join_prepend that finds no node to fold into
join_prepend_none(self, var, value, sep) == None

\* EnvSpec::join_prepend: None, or Some of the spec with value folded into the
\* first EnvAdd or EnvPrepend of var
RECURSIVE join_prepend(_, _, _, _)
join_prepend(self, var, value, sep) ==
    CASE IsTerminator(self) -> None
      [] self.tag \in {"EnvAdd", "EnvPrepend"} /\ self.n = var ->
            Some([self EXCEPT !.v = value \o sep \o self.v])
      [] OTHER ->
            LET t == join_prepend(self.se, var, value, sep)
            IN  IF t = None THEN None ELSE Some([self EXCEPT !.se = t[1]])

\* EnvSpec::join_append: None, or Some of the spec with value folded into the
\* first EnvAdd or EnvAppend of var
RECURSIVE join_append(_, _, _, _)
join_append(self, var, value, sep) ==
    CASE IsTerminator(self) -> None
      [] self.tag \in {"EnvAdd", "EnvAppend"} /\ self.n = var ->
            Some([self EXCEPT !.v = self.v \o sep \o value])
      [] OTHER ->
            LET t == join_append(self.se, var, value, sep)
            IN  IF t = None THEN None ELSE Some([self EXCEPT !.se = t[1]])

\* an add that does not normalize
add_push(self, var_name, var_value) == EnvAdd(var_name, var_value, self)

\* EnvSpec::add
add(self, var_name, var_value) ==
    EnvAdd(var_name, var_value, elide(self, Elide_All(var_name)))

\* a prepend that does not normalize
prepend_push(self, var, value, sep) == EnvPrepend(var, value, sep, self)

\* EnvSpec::prepend
prepend(self, var, value, sep) ==
    LET j == join_prepend(self, var, value, sep)
    IN  IF j = None
        THEN EnvPrepend(var, value, sep, elide(self, Elide_ForPrepend(var)))
        ELSE j[1]

\* EnvSpec::append
append(self, var, value, sep) ==
    LET j == join_append(self, var, value, sep)
    IN  IF j = None
        THEN EnvAppend(var, value, sep, elide(self, Elide_ForAppend(var)))
        ELSE j[1]

\* EnvSpec::rmv
rmv(self, var_name) == EnvRemove(var_name, elide(self, Elide_All(var_name)))

\* a set_base that puts base in the place of the terminator and leaves the
\* nodes of self as they are
RECURSIVE set_base_graft(_, _)
set_base_graft(self, base) ==
    IF IsTerminator(self) THEN base
    ELSE [self EXCEPT !.se = set_base_graft(self.se, base)]

\* EnvSpec::set_base
RECURSIVE set_base(_, _)
set_base(self, base) ==
    CASE self.tag = "StdEnv"     -> base
      [] self.tag = "BlankEnv"   -> base
      [] self.tag = "EnvAdd"     -> add(set_base(self.se, base), self.n, self.v)
      [] self.tag = "EnvRemove"  -> rmv(set_base(self.se, base), self.n)
      [] self.tag = "EnvPrepend" -> prepend(set_base(self.se, base), self.n, self.v, self.s)
      [] self.tag = "EnvAppend"  -> append(set_base(self.se, base), self.n, self.v, self.s)

(***************************************************************************)
(* The environment of a child process (execution.rs, update_env): a        *)
(* process::Command holds the variables set on it, a variable mapped to    *)
(* None being one to remove, and whether the parent's environment was      *)
(* cleared; an environment maps each name to None or to Some value.        *)
(***************************************************************************)
\* the names of the variables a caller or the parent process uses
EnvNames == {"A", "B"}

Command_new == [clear |-> FALSE, vars |-> [n \in EnvNames |-> None]]

\* Command::env
Command_env(cmnd, n, v) == [cmnd EXCEPT !.vars[n] = Some(Some(v))]

\* Command::env_remove
Command_env_remove(cmnd, n) ==
    [cmnd EXCEPT !.vars[n] = IF cmnd.clear THEN None ELSE Some(None)]

\* Command::env_clear: the variables set so far are dropped as well
Command_env_clear(cmnd) == [clear |-> TRUE, vars |-> [n \in EnvNames |-> None]]

\* update_env: the outermost node is applied first, the terminator last;
\* penv is std::env::vars(), the environment of the parent process
RECURSIVE update_env(_, _, _)
update_env(cmnd, espec, penv) ==
    CASE espec.tag = "StdEnv"    -> cmnd
      [] espec.tag = "BlankEnv"  -> Command_env_clear(cmnd)
      [] espec.tag = "EnvRemove" ->
            update_env(Command_env_remove(cmnd, espec.n), espec.se, penv)
      [] espec.tag = "EnvAdd"    ->
            update_env(Command_env(cmnd, espec.n, espec.v), espec.se, penv)
      [] espec.tag = "EnvAppend" ->
            IF penv[espec.n] = None
            THEN update_env(Command_env(cmnd, espec.n, espec.v), espec.se, penv)
            ELSE update_env(Command_env(cmnd, espec.n,
                                        penv[espec.n][1] \o espec.s \o espec.v),
                            espec.se, penv)
      [] espec.tag = "EnvPrepend" ->
            IF penv[espec.n] = None
            THEN update_env(Command_env(cmnd, espec.n, espec.v), espec.se, penv)
            ELSE update_env(Command_env(cmnd, espec.n,
                                        espec.v \o espec.s \o penv[espec.n][1]),
                            espec.se, penv)

\* Command::spawn: the environment the child process starts with
Command_spawn(cmnd, penv) ==
    [n \in EnvNames |->
        IF Len(cmnd.vars[n]) = 1 THEN cmnd.vars[n][1]
        ELSE IF cmnd.clear THEN None
        ELSE penv[n]]

(***************************************************************************)
(* The chain (operations/chained.rs).                                      *)
(***************************************************************************)
NoResult == [tag |-> "none", file |-> NoActualFile]
NoCur    == [idx |-> 0, inp |-> NoActualFile, out |-> NoActualFile,
             inobs |-> <<>>, outobs |-> <<>>, args |-> <<>>, via |-> <<>>]
NoPre    == [chain |-> <<>>, first |-> 0, last |-> 0, base |-> 0, cwd |-> None]
NoError   == [kind |-> "", args |-> None, dir |-> None, code |-> None, stderr |-> None,
              path |-> None]
NoFailure == [idx |-> 0, at |-> "none", err |-> NoError]
NoReturn   == [ok |-> FALSE, err |-> "", path |-> "", af |-> NoActualFile]
NotApplied == [fn |-> "none",
               args |-> [a |-> NoActualFile, b |-> NoActualFile, cwd |-> None,
                         candidate |-> TBD, gl |-> [ok |-> FALSE, files |-> <<>>]],
               r |-> NoReturn]
NotSpawned == [at |-> <<>>, espec |-> StdEnv, penv |-> <<>>, cenv |-> <<>>]

\* the ChainedOps objects and the callers of their execute; every ChainedOps
\* starts with a free lock that counted no execute, an unborrowed RefCell and
\* every stage enabled
Chains  == {"a", "b"}
Callers == {"t1", "t2"}

Unlocked   == [writer |-> FALSE, count |-> 0, poisoned |-> FALSE]
Unborrowed == [borrowed |-> FALSE, opstate |-> {}]
Outside    == [at |-> "out", ch |-> "a", id |-> 0, todo |-> <<>>, ran |-> <<>>]
NoHandle   == [ch |-> "a", during |-> FALSE, failed |-> FALSE]
NoHistory  == [muts |-> [ch \in Chains |-> [last |-> 0, past |-> {}]],
               rets |-> [ch \in Chains |-> "none yet"],
               unwound |-> [ch \in Chains |-> FALSE],
               rejected |-> [ch \in Chains |-> FALSE], handle |-> NoHandle]

InitSync ==
    /\ chlock = [ch \in Chains |-> Unlocked]
    /\ chops = [ch \in Chains |-> Unborrowed]
    /\ thr = [c \in Callers |-> Outside]
    /\ hist = NoHistory

\* ChainedOps::new
Init ==
    /\ chain = <<>>
    /\ files = FileTransformation_new
    /\ opstate = {}
    /\ preset_inputs = {}
    /\ cfg_inp = <<>>
    /\ cfg_args = <<>>
    /\ pc = "idle"
    /\ op_idxs = <<>>
    /\ tgtdir = None
    /\ frames = <<>>
    /\ cur = NoCur
    /\ calls = <<>>
    /\ result = NoResult
    /\ live = {}
    /\ held = {}
    /\ nextTemp = 0
    /\ globres = <<>>
    /\ globbed = FALSE
    /\ nexec = 0
    /\ prev = <<>>
    /\ pre = NoPre
    /\ failed = NoFailure
    /\ env = StdEnv
    /\ envlog = <<>>
    /\ spawned = NotSpawned
    /\ applied = NotApplied
    /\ InitSync

\* a builder call ends the record of the latest execute
Forget ==
    /\ calls' = <<>>
    /\ result' = NoResult
    /\ prev' = <<>>
    /\ pre' = NoPre
    /\ globbed' = FALSE
    /\ failed' = NoFailure
    /\ UNCHANGED <<nexec, envs>>

\* builder calls borrow the chain's RefCell, which execute holds while it runs
CanBuild == pc = "idle" /\ nexec < MaxExecs

\* FileTransformation::set_input_file / add_input_file / set_output_file
set_input_file(ft, f)  == [ft EXCEPT !.inp = <<f>>]
add_input_file(ft, f)  == [ft EXCEPT !.inp = Append(@, f)]
set_output_file(ft, f) == [ft EXCEPT !.out = f]

\* FileTransformation::set_dir
set_dir(ft, d) == [ft EXCEPT !.in_dir = Some(d)]

\* the body shared by ChainedOps::push_op and ChainedOps::push_call
push(op) ==
    /\ CanBuild
    /\ Len(chain) < MaxStages
    /\ chain' = Append(chain, op)
    /\ preset_inputs' = IF has_input_file(op.files)
                        THEN preset_inputs \cup {Len(chain) + 1}
                        ELSE preset_inputs
    /\ cfg_inp' = Append(cfg_inp, op.files.inp)
    /\ cfg_args' = Append(cfg_args, <<>>)
    /\ Forget
    /\ UNCHANGED <<files, opstate, exec, os>>

\* ChainedOps::push_op: op is a configured SubProcOperation
push_op(op) == op.kind = "Exec" /\ push(op)

\* ChainedOps::push_call: op is a configured FunctionOperation
push_call(op) == op.kind = "Call" /\ push(op)

\* ChainedOpRef::active
Ref_active(opidx, state) ==
    /\ CanBuild
    /\ opidx \in 1..Len(chain)
    /\ opstate' = IF state = "Enabled" THEN opstate \ {opidx} ELSE opstate \cup {opidx}
    /\ Forget
    /\ UNCHANGED <<chain, files, preset_inputs, cfg_inp, cfg_args, exec, os>>

\* ChainedOpRef::set_input_file
Ref_set_input_file(opidx, f) ==
    /\ CanBuild
    /\ opidx \in 1..Len(chain)
    /\ chain' = [chain EXCEPT ![opidx].files = set_input_file(@, f)]
    /\ preset_inputs' = preset_inputs \cup {opidx}
    /\ cfg_inp' = [cfg_inp EXCEPT ![opidx] = <<f>>]
    /\ Forget
    /\ UNCHANGED <<files, opstate, cfg_args, exec, os>>

\* ChainedOpRef::add_input_file
Ref_add_input_file(opidx, f) ==
    /\ CanBuild
    /\ opidx \in 1..Len(chain)
    /\ chain' = [chain EXCEPT ![opidx].files = add_input_file(@, f)]
    /\ preset_inputs' = preset_inputs \cup {opidx}
    /\ cfg_inp' = [cfg_inp EXCEPT ![opidx] = Append(@, f)]
    /\ Forget
    /\ UNCHANGED <<files, opstate, cfg_args, exec, os>>

\* ChainedOpRef::set_output_file
Ref_set_output_file(opidx, f) ==
    /\ CanBuild
    /\ opidx \in 1..Len(chain)
    /\ chain' = [chain EXCEPT ![opidx].files = set_output_file(@, f)]
    /\ Forget
    /\ UNCHANGED <<files, opstate, preset_inputs, cfg_inp, cfg_args, exec, os>>

\* FilesPrep for ChainedOps: set_input_file, add_input_file, set_output_file
Chain_set_input_file(f) ==
    /\ CanBuild
    /\ files' = set_input_file(files, f)
    /\ Forget
    /\ UNCHANGED <<chain, opstate, preset_inputs, cfg_inp, cfg_args, exec, os>>

Chain_add_input_file(f) ==
    /\ CanBuild
    /\ files' = add_input_file(files, f)
    /\ Forget
    /\ UNCHANGED <<chain, opstate, preset_inputs, cfg_inp, cfg_args, exec, os>>

Chain_set_output_file(f) ==
    /\ CanBuild
    /\ files' = set_output_file(files, f)
    /\ Forget
    /\ UNCHANGED <<chain, opstate, preset_inputs, cfg_inp, cfg_args, exec, os>>

\* ChainedOps::set_dir
Chain_set_dir(d) ==
    /\ CanBuild
    /\ files' = set_dir(files, d)
    /\ Forget
    /\ UNCHANGED <<chain, opstate, preset_inputs, cfg_inp, cfg_args, exec, os>>

\* a set_dir that reaches every stage of the chain
Ref_set_dir_all(opidx, d) ==
    /\ CanBuild
    /\ opidx \in 1..Len(chain)
    /\ chain' = [k \in 1..Len(chain) |-> [chain[k] EXCEPT !.files = set_dir(@, d)]]
    /\ Forget
    /\ UNCHANGED <<files, opstate, preset_inputs, cfg_inp, cfg_args, exec, os>>

\* ChainedOpRef::set_dir
Ref_set_dir(opidx, d) ==
    /\ CanBuild
    /\ opidx \in 1..Len(chain)
    /\ chain' = [chain EXCEPT ![opidx].files = set_dir(@, d)]
    /\ Forget
    /\ UNCHANGED <<files, opstate, preset_inputs, cfg_inp, cfg_args, exec, os>>

\* ChainedOpRef::push_arg; RunnableOp::push_arg ignores it for a function stage
Ref_push_arg(opidx, arg) ==
    /\ CanBuild
    /\ opidx \in 1..Len(chain)
    /\ chain' = IF chain[opidx].kind = "Exec"
                THEN [chain EXCEPT ![opidx].args = Append(@, arg)]
                ELSE chain
    /\ cfg_args' = [cfg_args EXCEPT ![opidx] = Append(@, arg)]
    /\ Forget
    /\ UNCHANGED <<files, opstate, preset_inputs, cfg_inp, exec, os>>


\* a filter that lets every stage through
EnabledFrom_unfiltered(n, disabled, i) == [k \in 1..(n - i + 1) |-> k + i - 1]

\* a filter that compares with the wrong Activation
RECURSIVE EnabledFrom_inverted(_, _, _)
EnabledFrom_inverted(n, disabled, i) ==
    IF i > n THEN <<>>
    ELSE (IF i \in disabled THEN <<i>> ELSE <<>>) \o EnabledFrom_inverted(n, disabled, i + 1)

\* the enabled indices, in chain order (the source keeps them reversed and pops)
RECURSIVE EnabledFrom(_, _, _)
EnabledFrom(n, disabled, i) ==
    IF i > n THEN <<>>
    ELSE (IF i \in disabled THEN <<>> ELSE <<i>>) \o EnabledFrom(n, disabled, i + 1)

enabled_opidxs(ch, disabled) == EnabledFrom(Len(ch), disabled, 1)

\* the chain's inputs given to the first enabled stage: set_input_file with the
\* first, add_input_file with the rest
RECURSIVE add_all(_, _, _)
add_all(ft, fs, k) ==
    IF k > Len(fs) THEN ft ELSE add_all(add_input_file(ft, fs[k]), fs, k + 1)

\* chain inputs added to the first enabled stage's own inputs
with_chain_inputs_added(ch, first_op, chain_inps) ==
    [ch EXCEPT ![first_op].files = add_all(@, chain_inps, 1)]

with_chain_inputs(ch, first_op, chain_inps) ==
    IF chain_inps # <<>>
    THEN [ch EXCEPT ![first_op].files = add_all(set_input_file(@, chain_inps[1]), chain_inps, 2)]
    ELSE ch

\* a chain output given only to a last stage that has no output of its own
with_chain_output_default(ch, last_op, ft) ==
    IF has_explicit_output_file(ft) /\ ch[last_op].files.out = TBD
    THEN [ch EXCEPT ![last_op].files = set_output_file(@, ft.out)]
    ELSE ch

\* the chain's output given to the last enabled stage
with_chain_output(ch, last_op, ft) ==
    IF has_explicit_output_file(ft)
    THEN [ch EXCEPT ![last_op].files = set_output_file(@, ft.out)]
    ELSE ch

\* the inputs of the next stage after a stage that produced the paths ps
threaded_inputs(ft, ps) ==
    LET n    == Len(ps)
        rest == SubSeq(ps, 1, n - 1)
    IN  add_all(set_input_file(ft, Loc(ps[n])), [k \in 1..(n - 1) |-> Loc(rest[k])], 1)

\* a threading step that leaves a stage alone once it has inputs
thread_once(ch, presets, next_idx, outfile) ==
    LET ps == to_paths(outfile)
    IN  IF ps.ok /\ ps.paths # <<>> /\ next_idx \notin presets
           /\ ~has_input_file(ch[next_idx].files)
        THEN [ch EXCEPT ![next_idx].files = threaded_inputs(@, ps.paths)]
        ELSE ch

\* execute_chain after a stage succeeded with outfile and another stage follows
thread(ch, presets, next_idx, outfile) ==
    LET ps == to_paths(outfile)
    IN  IF ps.ok /\ ps.paths # <<>> /\ next_idx \notin presets
        THEN [ch EXCEPT ![next_idx].files = threaded_inputs(@, ps.paths)]
        ELSE ch

\* frames whose outfile is never dropped
TempsOfAll_leaked(afs) == {}

\* the temp files owned by the ActualFiles of a sequence
RECURSIVE TempsOfAll(_)
TempsOfAll(afs) == IF afs = <<>> THEN {} ELSE TempsOf(Head(afs)) \cup TempsOfAll(Tail(afs))

\* the latest execute's calls with the temp files it created renamed by their
\* rank of creation
NormPath(p, base, top) ==
    IF \E i \in (base + 1)..top : p = TempPath(i)
    THEN "new" \o ToString((CHOOSE i \in (base + 1)..top : p = TempPath(i)) - base)
    ELSE p
NormPaths(ps, base, top) == [k \in 1..Len(ps) |-> NormPath(ps[k], base, top)]
NormCalls(cs, base, top) ==
    [k \in 1..Len(cs) |-> [idx |-> cs[k].idx, kind |-> cs[k].kind,
                           inobs |-> NormPaths(cs[k].inobs, base, top),
                           outobs |-> NormPaths(cs[k].outobs, base, top)]]

\* a tgtdir that leaves out the chain's directory
chain_tgtdir_cwd(cwd, in_dir) == cwd

\* the tgtdir of ChainedOps::execute, from its cwd argument and the chain's in_dir
chain_tgtdir(cwd, in_dir) ==
    IF cwd = None
    THEN in_dir
    ELSE IF in_dir # None THEN Some(Path_join(cwd[1], in_dir[1]))
                          ELSE Some(cwd[1])

\* the fromdir of SubProcOperation::run_cmd and of
\* FunctionOperation::run_with_files, from their cwd and the stage's in_dir
fromdir(cwd, in_dir) ==
    IF cwd # None
    THEN IF in_dir # None THEN Some(Path_join(cwd[1], in_dir[1]))
                          ELSE Some(cwd[1])
    ELSE in_dir

\* ChainedOps::execute up to the first call of execute_chain
execute(cwd) ==
    /\ pc = "idle"
    /\ nexec < MaxExecs
    /\ nexec' = nexec + 1
    /\ prev' = IF result.tag = "none" THEN <<>>
               ELSE <<[calls |-> NormCalls(calls, pre.base, nextTemp), tag |-> result.tag,
                       base |-> pre.base, top |-> nextTemp]>>
    /\ calls' = <<>>
    /\ globbed' = FALSE
    /\ failed' = NoFailure
    /\ LET en == enabled_opidxs(chain, opstate)
       IN  IF en = <<>>
           THEN /\ result' = [tag |-> "Ok", file |-> NoActualFile]
                /\ pre' = [chain |-> chain, first |-> 0, last |-> 0, base |-> nextTemp,
                           cwd |-> cwd]
                /\ UNCHANGED <<chain, exec>>
           ELSE LET first_op == en[1]
                    last_op  == en[Len(en)]
                IN  /\ chain' = with_chain_output(
                                    with_chain_inputs(chain, first_op, files.inp),
                                    last_op, files)
                    /\ pre' = [chain |-> chain, first |-> first_op, last |-> last_op,
                               base |-> nextTemp, cwd |-> cwd]
                    /\ tgtdir' = chain_tgtdir(cwd, files.in_dir)
                    /\ op_idxs' = en
                    /\ pc' = "setup"
                    /\ result' = NoResult
                    /\ UNCHANGED <<frames, cur>>
    /\ UNCHANGED <<files, opstate, preset_inputs, cfg_inp, cfg_args, os, envs>>

\* an error that execute_chain does not propagate: the failing stage is tried
\* again, or the stage after it is started
ReturnErr_continue(dropped) ==
    /\ result' = NoResult
    /\ live' = live \ dropped
    /\ pc' = IF op_idxs = <<>> THEN "idle" ELSE "setup"
    /\ cur' = NoCur
    /\ UNCHANGED <<op_idxs, tgtdir, frames>>

\* a return of execute with an error (the ? of execute_chain): every frame of
\* execute_chain drops its outfile
ReturnErr(dropped) ==
    /\ result' = [tag |-> "Err", file |-> NoActualFile]
    /\ live' = live \ (dropped \cup TempsOfAll(frames))
    /\ pc' = "idle"
    /\ op_idxs' = <<>>
    /\ frames' = <<>>
    /\ cur' = NoCur
    /\ tgtdir' = None

\* execute_chain: pop the next index, materialize that stage's files
\* (finalize_args, or the setup_file calls of FunctionOperation::execute)
StageSetup(tmpok, gl) ==
    /\ pc = "setup"
    /\ LET op_idx == Head(op_idxs)
           spo    == chain[op_idx]
           g      == IF globres = <<>> THEN gl ELSE globres[1]
           staged(m) ==
               /\ nextTemp' = m.next
               /\ globres' = IF UsesGlob(spo) THEN <<g>> ELSE globres
               /\ globbed' = (globbed \/ UsesGlob(spo))
               /\ IF m.ok
                  THEN /\ cur' = [idx |-> op_idx, inp |-> m.inp, out |-> m.out,
                                  inobs |-> m.inobs, outobs |-> m.outobs,
                                  args |-> m.args, via |-> m.via]
                       /\ live' = live \cup ((nextTemp + 1)..m.next)
                       /\ op_idxs' = Tail(op_idxs)
                       /\ pc' = "run"
                       /\ UNCHANGED <<tgtdir, frames, result>>
                  ELSE ReturnErr({})
               /\ failed' = IF m.ok THEN failed
                            ELSE [idx |-> op_idx, at |-> "setup",
                                  err |-> [NoError EXCEPT !.kind = m.err]]
       IN  staged(stage_setup(spo, tgtdir, nextTemp, tmpok, g))
    /\ UNCHANGED <<prog, held, cfg_inp, cfg_args, calls, nexec, prev, pre, envs>>

\* a stage that drops its output with its inputs
dropped_by_stage_all(inp, out) == TempsOf(inp) \cup TempsOf(out)

\* what RunnableOp::execute drops when it returns Ok: the stage's input
\* ActualFile (_inpfiles); the output ActualFile is returned to execute_chain
dropped_by_stage(inp, out) == TempsOf(inp)

\* OsRunResult: Good, ExecFailed(io error), ExecError(code, stderr),
\* RunError(error), BadDirectory(path, io error)
OsRunResult(tag, code, stderr, path) ==
    [tag |-> tag, code |-> code, stderr |-> stderr, path |-> path]

\* a stage whose every failure is reported as ErrorExecuting
run_error_executing(res, args, dir) ==
    [NoError EXCEPT !.kind = "ErrorExecuting", !.args = Some(args), !.dir = Some(dir)]

\* the ChainsopError that run_cmd and run_with_files build from an
\* OsRunResult other than Good, with what it carries; args is empty for a
\* function stage
run_error(res, args, dir) ==
    CASE res.tag = "RunError" ->
            [NoError EXCEPT !.kind = "ErrorExecuting", !.args = Some(args), !.dir = Some(dir)]
      [] res.tag = "ExecFailed" ->
            [NoError EXCEPT !.kind = "ErrorCmdSetup", !.args = Some(args), !.dir = Some(dir)]
      [] res.tag = "ExecError" ->
            [NoError EXCEPT !.kind = "ErrorRunningCmd", !.args = Some(args), !.dir = Some(dir),
                            !.code = Some(res.code), !.stderr = Some(res.stderr)]
      [] res.tag = "BadDirectory" ->
            [NoError EXCEPT !.kind = "ErrorBadDirectory", !.path = Some(res.path)]

\* the Executor is handed the stage (run_executable / run_function) and answers
\* res, having started the subprocess or the callback (ran) or not; then the
\* rest of execute_chain for this stage
StageRun(res, ran) ==
    /\ pc = "run"
    /\ calls' = Append(calls, [idx |-> cur.idx, kind |-> chain[cur.idx].kind,
                               inp |-> chain[cur.idx].files.inp,
                               out |-> chain[cur.idx].files.out,
                               inobs |-> cur.inobs, outobs |-> cur.outobs,
                               args |-> cur.args, via |-> cur.via,
                               dir |-> fromdir(tgtdir, chain[cur.idx].files.in_dir),
                               res |-> res, ran |-> ran])
    /\ IF res.tag # "Good"
       THEN /\ ReturnErr(TempsOf(cur.inp) \cup TempsOf(cur.out))
            /\ UNCHANGED <<chain, held>>
       ELSE IF op_idxs = <<>>
       THEN /\ result' = [tag |-> "Ok", file |-> cur.out]
            /\ live' = live \ (dropped_by_stage(cur.inp, cur.out) \cup TempsOfAll(frames))
            /\ held' = held \cup TempsOf(cur.out)
            /\ pc' = "idle"
            /\ frames' = <<>>
            /\ cur' = NoCur
            /\ tgtdir' = None
            /\ UNCHANGED <<chain, op_idxs>>
       ELSE /\ chain' = thread(chain, preset_inputs, Head(op_idxs), cur.out)
            /\ live' = live \ dropped_by_stage(cur.inp, cur.out)
            /\ frames' = Append(frames, cur.out)
            /\ cur' = NoCur
            /\ pc' = "setup"
            /\ UNCHANGED <<op_idxs, tgtdir, result, held>>
    /\ failed' = IF res.tag = "Good" THEN failed
                 ELSE [idx |-> cur.idx, at |-> "run",
                       err |-> run_error(res, cur.args,
                                         fromdir(tgtdir, chain[cur.idx].files.in_dir))]
    /\ UNCHANGED <<files, opstate, preset_inputs, cfg_inp, cfg_args, nextTemp, globres, globbed,
                   nexec, prev, pre, envs>>

\* the caller drops the ActualFiles it was returned
DropResult ==
    /\ pc = "idle"
    /\ held # {}
    /\ live' = live \ held
    /\ held' = {}
    /\ UNCHANGED <<prog, exec, cfg_inp, cfg_args, calls, result, nextTemp, globres, globbed,
                   nexec, prev, pre, failed, envs>>

(***************************************************************************)
(* The caller and the Executor: what they may pass, as a record of sets.   *)
(*   ops    operations pushed         refin  inputs set on a handle        *)
(*   refout outputs set on a handle   chin   inputs set on the chain       *)
(*   chadd  inputs added to the chain chout  outputs set on the chain      *)
(*   globs  answers of glob_search                                         *)
(*   hact, hin, hout  the stages whose handle the caller uses for active,  *)
(*   for the inputs, for the output    cap  the longest input list it      *)
(*   builds    tmpoks, results  answers of mk_tempfile and of a run        *)
(*   late   does it call active() between executes                         *)
(*   cwds   the directory arguments of execute                             *)
(***************************************************************************)
MaxInputs == 2

\* OsRunResult::Good
Good == OsRunResult("Good", 0, "", "")

SubProc(base_args, inspec, inflag, outspec, outflag, inp, out) ==
    [kind |-> "Exec", inspec |-> inspec, outspec |-> outspec,
     inflag |-> inflag, outflag |-> outflag, base_args |-> base_args, args |-> base_args,
     files |-> [inp |-> inp, out |-> out, in_dir |-> None]]

Exec(inspec, outspec, inp, out) == SubProc(<<>>, inspec, "", outspec, "", inp, out)

Call(inp, out) ==
    [kind |-> "Call", inspec |-> "ViaCall", outspec |-> "ViaCall",
     inflag |-> "", outflag |-> "", base_args |-> <<>>, args |-> <<>>,
     files |-> [inp |-> inp, out |-> out, in_dir |-> None]]

GlobOk(fs) == [ok |-> TRUE, files |-> fs]
GlobErr    == [ok |-> FALSE, files |-> <<>>]

\* the caller builds and configures the chain, then executes it; between
\* executes it only toggles activations, if it does anything (U.late)
Early == nexec = 0

Configure(U) ==
    \/ \E op \in U.ops : Early /\ push_op(op)
    \/ \E op \in U.ops : Early /\ push_call(op)
    \/ \E i \in U.hin, f \in U.refin : Early /\ Ref_set_input_file(i, f)
    \/ \E i \in U.hin \cap (1..Len(chain)), f \in U.refin :
          Early /\ Len(chain[i].files.inp) < U.cap /\ Ref_add_input_file(i, f)
    \/ \E i \in U.hout, f \in U.refout : Early /\ Ref_set_output_file(i, f)
    \/ \E f \in U.chin : Early /\ Chain_set_input_file(f)
    \/ \E f \in U.chadd : Early /\ Len(files.inp) < U.cap /\ Chain_add_input_file(f)
    \/ \E f \in U.chout : Early /\ Chain_set_output_file(f)

Toggle(U) ==
    \E i \in U.hact, st \in {"Enabled", "Disabled"} : (Early \/ U.late) /\ Ref_active(i, st)

Builder(U) == Configure(U) \/ Toggle(U)

Run(U) ==
    \/ \E cwd \in U.cwds : execute(cwd)
    \/ \E tmpok \in U.tmpoks, gl \in U.globs : StageSetup(tmpok, gl)
    \/ \E res \in U.results : StageRun(res, TRUE)
    \/ DropResult

\* stages with temp outputs, a temp chain input, a chain output
Plain ==
    [ops    |-> {Exec("Append", "Append", <<>>, Temp("o")), Call(<<>>, Temp("o"))},
     hact   |-> 1..MaxStages,
     hin    |-> {2},
     hout   |-> {MaxStages},
     refin  |-> {Loc("x")},
     refout |-> {TBD},
     chin   |-> {Temp("i")},
     chadd  |-> {Temp("i")},
     chout  |-> {Loc("p")},
     cap    |-> 1,
     late   |-> TRUE,
     tmpoks |-> BOOLEAN,
     results |-> {Good, OsRunResult("ExecFailed", 0, "", "")},
     globs  |-> {GlobOk(<<>>)},
     cwds   |-> {None}]

Next == Builder(Plain) \/ Run(Plain)

Spec == Init /\ [][Next]_vars

\* a subprocess stage whose output is a glob with two matches, function stages
\* with a temp output, pushed with and without an input, a second stage preset
\* on its handle, a chain input
Threading ==
    [ops    |-> {Exec("Append", "Append", <<>>, GlobIn("g")), Call(<<>>, Temp("o")),
                 Call(<<Loc("y")>>, Temp("o"))},
     hact   |-> 1..MaxStages,
     hin    |-> {2},
     hout   |-> {MaxStages},
     refin  |-> {Loc("x")},
     refout |-> {TBD},
     chin   |-> {Loc("c")},
     chadd  |-> {Loc("d")},
     chout  |-> {Loc("p")},
     cap    |-> MaxInputs,
     late   |-> TRUE,
     tmpoks |-> {TRUE},
     results |-> {Good, OsRunResult("ExecFailed", 0, "", "")},
     globs  |-> {GlobOk(<<"m1", "m2">>), GlobErr},
     cwds   |-> {None}]

NextThreading == Builder(Threading) \/ Run(Threading)

SpecThreading == Init /\ [][NextThreading]_vars

\* subprocess stages with and without an output file, a function stage, stage
\* outputs and chain outputs of several kinds, a chain input list
Ends ==
    [ops    |-> {Exec("Append", "Append", <<>>, Temp("o")),
                 Exec("Append", "NoFileUsed", <<>>, TBD),
                 Call(<<>>, TBD)},
     hact   |-> 1..MaxStages,
     hin    |-> {2},
     hout   |-> {1},
     refin  |-> {Loc("x")},
     refout |-> {Loc("q")},
     chin   |-> {Loc("c")},
     chadd  |-> {Loc("d")},
     chout  |-> {Loc("p"), Temp("t"), GlobIn("g")},
     cap    |-> MaxInputs,
     late   |-> FALSE,
     tmpoks |-> {TRUE},
     results |-> {Good, OsRunResult("ExecFailed", 0, "", "")},
     globs  |-> {GlobOk(<<>>)},
     cwds   |-> {None}]

NextEnds == Builder(Ends) \/ Run(Ends)

SpecEnds == Init /\ [][NextEnds]_vars

(***************************************************************************)
(* Directories: the caller sets the chain's directory (chdirs) and the     *)
(* directory of the stages hdir (opdirs) and passes execute a directory.   *)
(***************************************************************************)
Directories(U) ==
    \/ \E d \in U.chdirs : Early /\ Chain_set_dir(d)
    \/ \E i \in U.hdir, d \in U.opdirs : Early /\ Ref_set_dir(i, d)

\* a subprocess stage and a function stage, with a temp output; relative and
\* absolute directories for execute, the chain and the stages
Dirs ==
    [ops    |-> {Exec("Append", "Append", <<>>, Temp("o")), Call(<<>>, Temp("o"))},
     hact   |-> {1},
     hin    |-> {2},
     hout   |-> {MaxStages},
     refin  |-> {Loc("x")},
     refout |-> {Loc("q")},
     chin   |-> {Loc("c")},
     chadd  |-> {Loc("d")},
     chout  |-> {Loc("p")},
     cap    |-> 1,
     late   |-> FALSE,
     tmpoks |-> {TRUE},
     results |-> {Good},
     globs  |-> {GlobOk(<<>>)},
     cwds   |-> {None, Some(Rel(<<"e">>)), Some(Abs(<<"E">>))},
     chdirs |-> {Rel(<<"c">>), Abs(<<"C">>)},
     hdir   |-> {1, MaxStages},
     opdirs |-> {Rel(<<"s">>), Abs(<<"S">>)}]

NextDirs == Builder(Dirs) \/ Directories(Dirs) \/ Run(Dirs)

SpecDirs == Init /\ [][NextDirs]_vars

(***************************************************************************)
(* The built-in Executor (execution.rs), in one of its modes NormalRun,    *)
(* NormalWithEcho, NormalWithLabel, DryRun.  What the operating system     *)
(* would answer is an input: can the process's current directory be read   *)
(* (cwdok), what a spawned child does (child: Good, ExecFailed, ExecError), *)
(* what the callback returns (ret: Good, RunError), what a glob finds.     *)
(***************************************************************************)
\* a DryRun that runs the executable as NormalRun does
run_executable_normal(self, dir, cwdok, child) ==
    IF dir = None /\ ~cwdok
    THEN [res |-> OsRunResult("BadDirectory", 0, "", "."), ran |-> FALSE]
    ELSE [res |-> child, ran |-> TRUE]

\* Executor::run_executable; get_dir fails when no directory is given and
\* current_dir() fails
run_executable(self, dir, cwdok, child) ==
    IF dir = None /\ ~cwdok
    THEN [res |-> OsRunResult("BadDirectory", 0, "", "."), ran |-> FALSE]
    ELSE IF self = "DryRun"
    THEN [res |-> Good, ran |-> FALSE]
    ELSE [res |-> child, ran |-> TRUE]

\* Executor::run_function
run_function(self, dir, cwdok, ret) ==
    IF dir = None /\ ~cwdok
    THEN [res |-> OsRunResult("BadDirectory", 0, "", "."), ran |-> FALSE]
    ELSE IF self = "DryRun"
    THEN [res |-> Good, ran |-> FALSE]
    ELSE [res |-> ret, ran |-> TRUE]

\* Executor::glob_search; found is what glob::glob finds, or its error
glob_search(self, found) == IF self = "DryRun" THEN GlobOk(<<>>) ELSE found

\* execute with the built-in Executor U.executor; mk_tempfile creates a temp
\* file in every mode
RunBuiltin(U) ==
    \/ \E cwd \in U.cwds : execute(cwd)
    \/ \E tmpok \in U.tmpoks, found \in U.globs :
          StageSetup(tmpok, glob_search(U.executor, found))
    \/ \E cwdok \in U.cwdoks, child \in U.children, ret \in U.rets :
          /\ pc = "run"
          /\ LET dir == fromdir(tgtdir, chain[cur.idx].files.in_dir)
                 a   == IF chain[cur.idx].kind = "Exec"
                        THEN run_executable(U.executor, dir, cwdok, child)
                        ELSE run_function(U.executor, dir, cwdok, ret)
             IN  StageRun(a.res, a.ran)
    \/ DropResult

\* Executor::DryRun on stages with temp and glob files, where a child would
\* fail and a glob would find files
DryRuns ==
    [ops    |-> {SubProc(<<"-v">>, "Append", "", "Append", "", <<>>, Temp("o")),
                 Call(<<GlobIn("g")>>, Temp("o"))},
     hact   |-> {1},
     hin    |-> {2},
     hout   |-> {MaxStages},
     refin  |-> {GlobIn("h")},
     refout |-> {Loc("q")},
     chin   |-> {GlobIn("g")},
     chadd  |-> {Loc("d")},
     chout  |-> {Loc("p")},
     cap    |-> 1,
     late   |-> FALSE,
     tmpoks |-> BOOLEAN,
     globs  |-> {GlobOk(<<"m1", "m2">>), GlobErr},
     cwds   |-> {None, Some(Rel(<<"e">>))},
     executor |-> "DryRun",
     cwdoks |-> BOOLEAN,
     children |-> {Good, OsRunResult("ExecError", 1, "e", "")},
     rets   |-> {Good, OsRunResult("RunError", 0, "", "")}]

NextDryRun == Builder(DryRuns) \/ RunBuiltin(DryRuns)

SpecDryRun == Init /\ [][NextDryRun]_vars

\* an Executor that gives every answer an OsRunResult can be, to a subprocess
\* stage with arguments and to a function stage, run from no directory and
\* from a directory
Answers ==
    [ops    |-> {SubProc(<<"-v">>, "Append", "", "Append", "", <<>>, Temp("o")),
                 Call(<<>>, Temp("o"))},
     hact   |-> {1},
     hin    |-> {2},
     hout   |-> {MaxStages},
     refin  |-> {Loc("x")},
     refout |-> {Loc("q")},
     chin   |-> {Loc("c")},
     chadd  |-> {Loc("d")},
     chout  |-> {Loc("p")},
     cap    |-> 1,
     late   |-> FALSE,
     tmpoks |-> BOOLEAN,
     results |-> {Good, OsRunResult("ExecFailed", 0, "", ""),
                 OsRunResult("ExecError", 1, "e", ""), OsRunResult("RunError", 0, "", ""),
                 OsRunResult("BadDirectory", 0, "", ".")},
     globs  |-> {GlobOk(<<>>)},
     cwds   |-> {None, Some(Rel(<<"e">>))}]

NextAnswers == Builder(Answers) \/ Run(Answers)

SpecAnswers == Init /\ [][NextAnswers]_vars

(***************************************************************************)
(* Arguments: the caller pushes arguments (pushed) on the handles harg, up *)
(* to argcap arguments for a stage.                                        *)
(***************************************************************************)
Arguments(U) ==
    \E i \in U.harg \cap (1..Len(chain)), a \in U.pushed :
        Early /\ Len(cfg_args[i]) < U.argcap /\ Ref_push_arg(i, a)

\* subprocess stages that need their files, by Append, by Option and by
\* ViaCall, or that use none, with outputs and inputs that may still be TBD;
\* a directory for execute, for the chain and for the first stage, an
\* argument for the first stage
Required ==
    [ops    |-> {SubProc(<<>>, "Append", "", "Option", "-o", <<>>, Temp("o")),
                 SubProc(<<>>, "ViaCall", "", "ViaCall", "", <<>>, TBD),
                 SubProc(<<>>, "Option", "-i", "NoFileUsed", "", <<>>, TBD),
                 Call(<<>>, TBD)},
     hact   |-> {1},
     hin    |-> {1},
     hout   |-> {1},
     refin  |-> {TBD, Loc("x")},
     refout |-> {Loc("q")},
     chin   |-> {Loc("c")},
     chadd  |-> {TBD},
     chout  |-> {Loc("p")},
     cap    |-> 1,
     late   |-> FALSE,
     tmpoks |-> {TRUE},
     results |-> {Good},
     globs  |-> {GlobOk(<<>>)},
     cwds   |-> {None, Some(Rel(<<"e">>))},
     chdirs |-> {Rel(<<"c">>)},
     hdir   |-> {1},
     opdirs |-> {Rel(<<"s">>)},
     harg   |-> {1},
     pushed |-> {"-a"},
     argcap |-> 1]

NextRequired ==
    Builder(Required) \/ Directories(Required) \/ Arguments(Required) \/ Run(Required)

SpecRequired == Init /\ [][NextRequired]_vars

\* subprocess stages of tools with a base argument and every kind of file
\* spec: output by option with and without "=", input by option with and
\* without "="; inputs from one FileArg (a glob with two matches) and from
\* several FileArgs
Args ==
    [ops    |-> {SubProc(<<"-v">>, "Append", "", "Option", "-o", <<>>, Temp("o")),
                 SubProc(<<"-v">>, "Append", "", "Option", "-o=", <<>>, Loc("out")),
                 SubProc(<<"-v">>, "Option", "-i", "Option", "-o", <<>>, Loc("out")),
                 SubProc(<<"-v">>, "Option", "-i=", "Append", "", <<>>, GlobIn("g")),
                 Call(<<>>, Loc("out"))},
     hact   |-> {1},
     hin    |-> {2},
     hout   |-> {1},
     refin  |-> {Loc("x")},
     refout |-> {Loc("out")},
     chin   |-> {GlobIn("g")},
     chadd  |-> {Loc("b")},
     chout  |-> {Loc("p")},
     cap    |-> 2,
     late   |-> FALSE,
     tmpoks |-> {TRUE},
     results |-> {Good},
     globs  |-> {GlobOk(<<"m1", "m2">>)},
     cwds   |-> {None},
     harg   |-> {1},
     pushed |-> {"-a", "-b"},
     argcap |-> 2]

NextArgs == Builder(Args) \/ Arguments(Args) \/ Run(Args)

SpecArgs == Init /\ [][NextArgs]_vars

(***************************************************************************)
(* The environment of a stage: the caller starts from a terminator and     *)
(* makes up to MaxEnvOps calls of add, rmv, prepend, append and set_base,  *)
(* with names, values and separators from small sets (SubProcOperation's   *)
(* set_env, unset_env, prepend_env, append_env assign the result to env).  *)
(***************************************************************************)
MaxEnvOps == 3

EnvValues == {"x", "y"}
EnvSeps   == {":", "+"}
EnvBases  == {BlankEnv,
              add(BlankEnv, "B", "y"),
              append(prepend(StdEnv, "A", "y", "+"), "A", "x", ":")}

chainonly == <<prog, exec, os, cfg_inp, cfg_args, calls, result, globbed, nexec, prev, pre,
               failed>>
chainvars == <<chainonly, sync>>

Logged(op, n, v, s, base) ==
    [op |-> op, n |-> n, v |-> v, s |-> s, base |-> base, from |-> env]

Env_add(n, v) ==
    /\ Len(envlog) < MaxEnvOps
    /\ env' = add(env, n, v)
    /\ envlog' = Append(envlog, Logged("add", n, v, "", StdEnv))
    /\ UNCHANGED <<chainvars, spawned, applied>>

Env_rmv(n) ==
    /\ Len(envlog) < MaxEnvOps
    /\ env' = rmv(env, n)
    /\ envlog' = Append(envlog, Logged("rmv", n, "", "", StdEnv))
    /\ UNCHANGED <<chainvars, spawned, applied>>

Env_prepend(n, v, s) ==
    /\ Len(envlog) < MaxEnvOps
    /\ env' = prepend(env, n, v, s)
    /\ envlog' = Append(envlog, Logged("prepend", n, v, s, StdEnv))
    /\ UNCHANGED <<chainvars, spawned, applied>>

Env_append(n, v, s) ==
    /\ Len(envlog) < MaxEnvOps
    /\ env' = append(env, n, v, s)
    /\ envlog' = Append(envlog, Logged("append", n, v, s, StdEnv))
    /\ UNCHANGED <<chainvars, spawned, applied>>

Env_set_base(base) ==
    /\ Len(envlog) < MaxEnvOps
    /\ env' = set_base(env, base)
    /\ envlog' = Append(envlog, Logged("set_base", "", "", "", base))
    /\ UNCHANGED <<chainvars, spawned, applied>>

\* a new stage's env is StdEnv; a spec can also be started from BlankEnv
InitEnv ==
    /\ chain = <<>>
    /\ files = FileTransformation_new
    /\ opstate = {}
    /\ preset_inputs = {}
    /\ cfg_inp = <<>>
    /\ cfg_args = <<>>
    /\ pc = "idle"
    /\ op_idxs = <<>>
    /\ tgtdir = None
    /\ frames = <<>>
    /\ cur = NoCur
    /\ calls = <<>>
    /\ result = NoResult
    /\ live = {}
    /\ held = {}
    /\ nextTemp = 0
    /\ globres = <<>>
    /\ globbed = FALSE
    /\ nexec = 0
    /\ prev = <<>>
    /\ pre = NoPre
    /\ failed = NoFailure
    /\ env \in {StdEnv, BlankEnv}
    /\ envlog = <<>>
    /\ spawned = NotSpawned
    /\ applied = NotApplied
    /\ InitSync

NextEnv ==
    \/ \E n \in EnvNames, v \in EnvValues : Env_add(n, v)
    \/ \E n \in EnvNames : Env_rmv(n)
    \/ \E n \in EnvNames, v \in EnvValues, s \in EnvSeps : Env_prepend(n, v, s)
    \/ \E n \in EnvNames, v \in EnvValues, s \in EnvSeps : Env_append(n, v, s)
    \/ \E base \in EnvBases : Env_set_base(base)

SpecEnv == InitEnv /\ [][NextEnv]_vars

(***************************************************************************)
(* The environment a stage's subprocess gets: the caller configures env    *)
(* with clear_env, set_env, unset_env, prepend_env and append_env, and the *)
(* built-in Executor (NormalRun) spawns the child from a parent process    *)
(* whose own environment is one of ParentEnvs.                             *)
(***************************************************************************)
ParentEnvs == {[n \in EnvNames |-> None],
               [n \in EnvNames |-> IF n = "A" THEN Some("o") ELSE Some("q")]}

\* SubProcOperation::clear_env
Env_clear ==
    /\ Len(envlog) < MaxEnvOps
    /\ env' = BlankEnv
    /\ envlog' = Append(envlog, Logged("clear", "", "", "", StdEnv))
    /\ UNCHANGED <<chainvars, spawned, applied>>

\* Executor::run_executable, NormalRun: the child's environment is what
\* update_env leaves on the Command
Env_spawn(penv) ==
    /\ spawned' = [at |-> envlog, espec |-> env, penv |-> penv,
                   cenv |-> Command_spawn(update_env(Command_new, env, penv), penv)]
    /\ UNCHANGED <<chainvars, env, envlog, applied>>

NextProc ==
    \/ Env_clear
    \/ \E n \in EnvNames, v \in EnvValues : Env_add(n, v)
    \/ \E n \in EnvNames : Env_rmv(n)
    \/ \E n \in EnvNames, v \in EnvValues, s \in {":"} : Env_prepend(n, v, s)
    \/ \E n \in EnvNames, v \in EnvValues, s \in {":"} : Env_append(n, v, s)
    \/ \E penv \in ParentEnvs : Env_spawn(penv)

SpecProc == InitEnv /\ [][NextProc]_vars

(***************************************************************************)
(* The functions of ActualFile, called by a user of the library: the       *)
(* arguments are ActualFiles of up to MaxInputs files, a cwd, a FileArg    *)
(* and an answer of the Executor's glob_search.                            *)
(***************************************************************************)
\* the sequences over S of length n
RECURSIVE SeqsOf(_, _)
SeqsOf(S, n) ==
    IF n = 0 THEN {<<>>}
    ELSE {<<x>> \o sq : x \in S, sq \in SeqsOf(S, n - 1)}

\* the ActualFiles over two static files and a temp file
ActualFiles ==
    {NoActualFile, SingleFile(TempFile(1))}
        \cup {SingleFile(StaticFile(f)) : f \in {"f1", "f2"}}
        \cup UNION {{MultiFile(StaticRefs(fs)) : fs \in SeqsOf({"f1", "f2"}, k)} :
                       k \in 0..MaxInputs}

InitFiles ==
    /\ chain = <<>>
    /\ files = FileTransformation_new
    /\ opstate = {}
    /\ preset_inputs = {}
    /\ cfg_inp = <<>>
    /\ cfg_args = <<>>
    /\ pc = "idle"
    /\ op_idxs = <<>>
    /\ tgtdir = None
    /\ frames = <<>>
    /\ cur = NoCur
    /\ calls = <<>>
    /\ result = NoResult
    /\ live = {}
    /\ held = {}
    /\ nextTemp = 0
    /\ globres = <<>>
    /\ globbed = FALSE
    /\ nexec = 0
    /\ prev = <<>>
    /\ pre = NoPre
    /\ failed = NoFailure
    /\ env = StdEnv
    /\ envlog = <<>>
    /\ spawned = NotSpawned
    /\ InitSync
    /\ \E a \in ActualFiles, b \in ActualFiles,
          cwd \in {None, Some(Rel(<<"d">>))},
          candidate \in {TBD, Loc("f1"), Temp("t"), GlobIn("g")},
          gl \in {GlobErr, GlobOk(<<>>), GlobOk(<<"f1">>), GlobOk(<<"f2", "f1">>)} :
            applied = [fn |-> "none",
                       args |-> [a |-> a, b |-> b, cwd |-> cwd,
                                 candidate |-> candidate, gl |-> gl],
                       r |-> NoReturn]

Returns(fn, r) ==
    /\ applied.fn = "none"
    /\ applied' = [applied EXCEPT !.fn = fn, !.r = r]
    /\ UNCHANGED <<chainvars, env, envlog, spawned>>

Apply_extend ==
    Returns("extend", [NoReturn EXCEPT !.ok = TRUE,
                                       !.af = extend(applied.args.a, applied.args.b)])

Apply_to_path ==
    LET p == to_path(applied.args.cwd, applied.args.a)
    IN  Returns("to_path", [NoReturn EXCEPT !.ok = p.ok, !.err = p.err, !.path = p.path])

\* setup_file with an on_missing that returns ErrorMissingFile
Apply_setup_file ==
    LET m == setup_file(applied.args.candidate, FALSE, 0, TRUE, applied.args.gl)
    IN  Returns("setup_file", [NoReturn EXCEPT !.ok = m.ok, !.af = m.af])

NextFiles == Apply_extend \/ Apply_to_path \/ Apply_setup_file

SpecFiles == InitFiles /\ [][NextFiles]_vars

(***************************************************************************)
(* Properties of a chain execution.                                        *)
(***************************************************************************)
(* The execute lock and the RefCell (operations/chained.rs).  The callers  *)
(* call execute on the ChainedOps objects of Chains, each a chain of       *)
(* MaxStages stages, and use stage handles, also from within a running     *)
(* stage (a function stage's callback, a custom Executor).                 *)
(***************************************************************************)
\* a write() that is granted while another writer holds the lock
RwLock_write_shared(l) == TRUE

\* RwLock::write: granted when no writer holds the lock; the caller waits
\* until then
RwLock_write(l) == ~l.writer

\* a borrow_mut that does not look at the borrow flag
RefCell_borrow_mut_unchecked(cell) == TRUE

\* RefCell::borrow_mut (and borrow, against a mutable borrow): succeeds when
\* the cell is not borrowed, panics otherwise
RefCell_borrow_mut(cell) == ~cell.borrowed

\* the execute numbered id writes into the stages of a chain: the executes
\* that wrote before it, and are not the one that wrote last, are past
Mutated(m, id) ==
    [last |-> id, past |-> IF m.last \in {0, id} THEN m.past ELSE m.past \cup {m.last}]

\* is an execute of ch between its lock and its return
Inside(c, ch) == thr[c].ch = ch /\ thr[c].at # "out"

\* a return that keeps the lock guard
returned_locked(c, how) ==
    LET ch == thr[c].ch
    IN  /\ chlock' = chlock
        /\ chops' = [chops EXCEPT ![ch].borrowed = FALSE]
        /\ thr' = [thr EXCEPT ![c] = Outside]
        /\ hist' = [hist EXCEPT !.rets[ch] = how]

\* a return of execute: the scope ends, chops (the RefMut) and locked (the
\* write guard) are dropped
returned(c, how) ==
    LET ch == thr[c].ch
    IN  /\ chlock' = [chlock EXCEPT ![ch].writer = FALSE]
        /\ chops' = [chops EXCEPT ![ch].borrowed = FALSE]
        /\ thr' = [thr EXCEPT ![c] = Outside]
        /\ hist' = [hist EXCEPT !.rets[ch] = how]

\* a panic unwinds execute: chops is dropped, and locked is dropped while
\* panicking, which poisons the lock
unwound(c, h) ==
    LET ch == thr[c].ch
    IN  /\ chlock' = [chlock EXCEPT ![ch].writer = FALSE, ![ch].poisoned = TRUE]
        /\ chops' = [chops EXCEPT ![ch].borrowed = FALSE]
        /\ thr' = [thr EXCEPT ![c] = Outside]
        /\ hist' = [h EXCEPT !.unwound[ch] = TRUE]

\* ChainedOps::execute, its first two statements: chlock.write().unwrap()
\* and *locked += 1; unwrap panics on a poisoned lock
Sync_execute(c, ch) ==
    /\ thr[c].at = "out"
    /\ chlock[ch].count < MaxExecs
    /\ RwLock_write(chlock[ch])
    /\ IF chlock[ch].poisoned
       THEN /\ hist' = [hist EXCEPT !.rejected[ch] = TRUE]
            /\ UNCHANGED <<chlock, chops, thr>>
       ELSE /\ chlock' = [chlock EXCEPT ![ch].writer = TRUE, ![ch].count = @ + 1]
            /\ thr' = [thr EXCEPT ![c] = [at |-> "locked", ch |-> ch,
                                          id |-> chlock[ch].count + 1,
                                          todo |-> <<>>, ran |-> <<>>]]
            /\ UNCHANGED <<chops, hist>>
    /\ UNCHANGED <<chainonly, env, envlog, spawned, applied>>

\* ChainedOps::execute from chops.borrow_mut() to the call of execute_chain:
\* the enabled indices are computed, None is returned when there is none,
\* else the first and the last enabled stage are written
Sync_borrow(c) ==
    /\ thr[c].at = "locked"
    /\ LET ch == thr[c].ch
           en == EnabledFrom(MaxStages, chops[ch].opstate, 1)
       IN  IF ~RefCell_borrow_mut(chops[ch])
           THEN unwound(c, hist)
           ELSE IF en = <<>>
           THEN returned(c, "none")
           ELSE /\ chops' = [chops EXCEPT ![ch].borrowed = TRUE]
                /\ thr' = [thr EXCEPT ![c].at = "chain", ![c].todo = en]
                /\ hist' = [hist EXCEPT !.muts[ch] = Mutated(@, thr[c].id)]
                /\ UNCHANGED chlock
    /\ UNCHANGED <<chainonly, env, envlog, spawned, applied>>

\* execute_chain: the next enabled stage is run; its error or the end of the
\* chain returns, else its output is written into the next stage
Sync_stage(c, ok) ==
    /\ thr[c].at = "chain"
    /\ LET ch == thr[c].ch
       IN  IF ~ok
           THEN returned(c, "err")
           ELSE IF Len(thr[c].todo) = 1
           THEN returned(c, "ok")
           ELSE /\ thr' = [thr EXCEPT ![c].todo = Tail(@),
                                      ![c].ran = Append(@, Head(thr[c].todo))]
                /\ hist' = [hist EXCEPT !.muts[ch] = Mutated(@, thr[c].id)]
                /\ UNCHANGED <<chlock, chops>>
    /\ UNCHANGED <<chainonly, env, envlog, spawned, applied>>

\* ChainedOpRef::active on stage i of ch, called by a caller that is not in
\* an execute; the panic of borrow_mut ends the call
Sync_handle(c, ch, i, state) ==
    /\ thr[c].at = "out"
    /\ LET during == \E c2 \in Callers : Inside(c2, ch) /\ thr[c2].at = "chain"
       IN  IF RefCell_borrow_mut(chops[ch])
           THEN /\ chops' = [chops EXCEPT ![ch].opstate =
                                IF state = "Enabled" THEN @ \ {i} ELSE @ \cup {i}]
                /\ hist' = [hist EXCEPT !.handle =
                                [ch |-> ch, during |-> during, failed |-> FALSE]]
           ELSE /\ hist' = [hist EXCEPT !.handle =
                                [ch |-> ch, during |-> during, failed |-> TRUE]]
                /\ UNCHANGED chops
    /\ UNCHANGED <<chlock, thr, chainonly, env, envlog, spawned, applied>>

\* ChainedOpRef::active on stage i of the chain that c is executing, called
\* from the stage that is running; the panic of borrow_mut unwinds the execute
Sync_reenter(c, i, state) ==
    /\ thr[c].at = "chain"
    /\ LET ch == thr[c].ch
       IN  IF RefCell_borrow_mut(chops[ch])
           THEN /\ chops' = [chops EXCEPT ![ch].opstate =
                                IF state = "Enabled" THEN @ \ {i} ELSE @ \cup {i}]
                /\ hist' = [hist EXCEPT !.handle =
                                [ch |-> ch, during |-> TRUE, failed |-> FALSE]]
                /\ UNCHANGED <<chlock, thr>>
           ELSE unwound(c, [hist EXCEPT !.handle =
                                [ch |-> ch, during |-> TRUE, failed |-> TRUE]])
    /\ UNCHANGED <<chainonly, env, envlog, spawned, applied>>

NextSync ==
    \/ \E c \in Callers, ch \in Chains : Sync_execute(c, ch)
    \/ \E c \in Callers : Sync_borrow(c)
    \/ \E c \in Callers, ok \in BOOLEAN : Sync_stage(c, ok)
    \/ \E c \in Callers, ch \in Chains, i \in {1, MaxStages},
          state \in {"Enabled", "Disabled"} : Sync_handle(c, ch, i, state)
    \/ \E c \in Callers, i \in {1, MaxStages}, state \in {"Enabled", "Disabled"} :
          Sync_reenter(c, i, state)

SpecSync == Init /\ [][NextSync]_vars

(***************************************************************************)
Returned   == pc = "idle" /\ result.tag # "none"
Stages     == 1..Len(chain)
ThisRun    == (pre.base + 1)..nextTemp
IsTempPath(p, ids) == \E t \in ids : p = TempPath(t)
Elems(sq)  == {sq[k] : k \in 1..Len(sq)}

\* C1: a successful execute hands to the Executor exactly the stages that are
\* enabled (not marked Disabled by the latest active() call), each exactly once,
\* in chain insertion order; a Disabled stage is never handed to the Executor,
\* whether the execute succeeds or not.
C1_EnabledStagesOnceInOrder ==
    /\ \A k \in 1..Len(calls) : calls[k].idx \in Stages \ opstate
    /\ \A k, l \in 1..Len(calls) : k < l => calls[k].idx < calls[l].idx
    /\ (pc = "idle" /\ result.tag = "Ok") =>
          \A i \in Stages \ opstate : \E k \in 1..Len(calls) : calls[k].idx = i

\* a successful execute of a chain with a Disabled first stage and an enabled
\* second stage
C1_Witness ==
    /\ pc = "idle" /\ result.tag = "Ok"
    /\ Len(chain) = 2 /\ opstate = {1}
    /\ Len(calls) = 1 /\ calls[1].idx = 2

\* C7: executing a chain with no stage, or with every stage Disabled, returns
\* Ok(NoActualFile) without any call to the Executor (no run, no glob_search, no
\* mk_tempfile) and without changing any stage's input or output configuration.
C7_NothingEnabledNothingDone ==
    (Returned /\ Stages \subseteq opstate) =>
        /\ result = [tag |-> "Ok", file |-> NoActualFile]
        /\ calls = <<>>
        /\ ~globbed
        /\ nextTemp = pre.base
        /\ chain = pre.chain

\* an execute of a chain of two Disabled stages has returned
C7_Witness == Returned /\ Len(chain) = 2 /\ opstate = {1, 2}

\* C9: when execute returns, with Ok or with Err, no temp file created during
\* that execute exists any more, except those owned by the returned ActualFile,
\* which exist until the caller drops it.
C9_TempsGoneAtReturn ==
    Returned =>
        /\ \A t \in ThisRun \cap live : t \in TempsOf(result.file)
        /\ \A t \in TempsOf(result.file) \cap held : t \in live

\* an execute that created two temp files has returned the second
C9_Witness ==
    /\ Returned /\ result.tag = "Ok"
    /\ Cardinality(ThisRun) = 2
    /\ TempsOf(result.file) = {nextTemp}
    /\ nextTemp \in live

\* C10: a temp file produced as the output of an enabled stage exists during
\* the whole time the next enabled stage is materialized and run.
C10_PrevOutputAlive ==
    (pc \in {"setup", "run"} /\ calls # <<>>) =>
        \A t \in ThisRun : TempPath(t) \in Elems(calls[Len(calls)].outobs) => t \in live

\* the second stage is about to run; the first stage produced a temp file
C10_Witness ==
    /\ pc = "run" /\ Len(calls) = 1
    /\ \E t \in ThisRun : calls[1].outobs = <<TempPath(t)>> /\ t \in live

\* the paths the Executor was shown in the calls cs
Observed(cs) == UNION {Elems(cs[k].inobs) \cup Elems(cs[k].outobs) : k \in 1..Len(cs)}

LocsOf(ps)     == [k \in 1..Len(ps) |-> Loc(ps[k])]
FirstEnabled   == CHOOSE i \in Stages \ opstate : \A j \in Stages \ opstate : i <= j
LastEnabled    == CHOOSE i \in Stages \ opstate : \A j \in Stages \ opstate : j <= i
TakesInputs(c) == c.kind = "Call" \/ chain[c.idx].inspec = "Append"

\* C2: within one execute, for consecutive enabled stages where the later one is
\* not in preset_inputs and the earlier one produced at least one output path,
\* the input list the later stage runs with is the earlier stage's output path
\* list: the same paths in the same order, also when there are several paths.
C2_NextStageGetsOutputInOrder ==
    \A k \in 1..(Len(calls) - 1) :
        (calls[k + 1].idx \notin preset_inputs /\ calls[k].outobs # <<>>) =>
            calls[k + 1].inp = LocsOf(calls[k].outobs)

\* C3: in any execute, (a) threading never replaces the input list of a stage
\* in preset_inputs; (b) such a stage, when it is not the first enabled stage,
\* runs with exactly the inputs configured for it (at push or on its handle);
\* (c) the stage after it, when not preset itself, still receives the preset
\* stage's output paths.
C3_PresetStageKeepsConfiguredInputs ==
    /\ \A i \in preset_inputs :
          (pc # "idle" /\ i # FirstEnabled) => chain[i].files.inp = pre.chain[i].files.inp
    /\ \A k \in 1..Len(calls) :
          (calls[k].idx \in preset_inputs /\ k > 1) => calls[k].inp = cfg_inp[calls[k].idx]
    /\ \A k \in 1..(Len(calls) - 1) :
          (calls[k].idx \in preset_inputs /\ calls[k + 1].idx \notin preset_inputs
              /\ calls[k].outobs # <<>>) =>
                /\ Elems(calls[k + 1].inp) = Elems(LocsOf(calls[k].outobs))
                /\ Len(calls[k + 1].inp) = Len(calls[k].outobs)

\* C4: if the chain has a non-empty input list at execute, the first enabled
\* stage runs with exactly the chain's input list, in order, whatever inputs it
\* had and whether or not it is in preset_inputs (and a stage that takes its
\* inputs is shown their paths in that order, when they are all Loc); if the
\* chain has no input the first enabled stage runs with the inputs it had when
\* execute began.
C4_FirstEnabledGetsChainInputs ==
    calls # <<>> =>
        LET c == calls[1]
        IN  /\ c.idx = FirstEnabled
            /\ files.inp # <<>> =>
                  /\ c.inp = files.inp
                  /\ (TakesInputs(c) /\ \A k \in 1..Len(files.inp) : files.inp[k].tag = "Loc")
                        => c.inobs = [k \in 1..Len(files.inp) |-> files.inp[k].path]
            /\ files.inp = <<>> => c.inp = pre.chain[c.idx].files.inp

\* the first stage is Disabled, the second one is preset with x and ran with the
\* chain's inputs c, d
C4_Witness ==
    /\ Len(calls) = 1 /\ calls[1].idx = 2 /\ opstate = {1}
    /\ 2 \in preset_inputs /\ cfg_inp[2] = <<Loc("x")>>
    /\ files.inp = <<Loc("c"), Loc("d")>>
    /\ calls[1].inp = <<Loc("c"), Loc("d")>>

\* C5: the last enabled stage runs with the chain's output as its output FileArg
\* exactly when the chain's output is Loc(_); when the chain's output is TBD,
\* Temp or GlobIn it runs with the output it had when execute began.
C5_LastEnabledGetsChainLocOutput ==
    (Returned /\ result.tag = "Ok" /\ calls # <<>>) =>
        LET c == calls[Len(calls)]
        IN  /\ c.idx = LastEnabled
            /\ c.out = IF files.out.tag = "Loc" THEN files.out
                       ELSE pre.chain[c.idx].files.out

\* the chain's output is Loc(p); the last enabled stage, the first of two, has
\* its own output q and ran with p
C5_Witness ==
    /\ Returned /\ result.tag = "Ok" /\ calls # <<>>
    /\ Len(chain) = 2 /\ opstate = {2}
    /\ files.out = Loc("p")
    /\ pre.chain[1].files.out = Loc("q")
    /\ calls[Len(calls)].out = Loc("p")

\* C6 as stated: when the chain's output is Loc(p), a stage is enabled and every
\* stage succeeds, execute returns Single(Static(p)) whatever the last enabled
\* stage's own output and output file spec.
C6_ReturnsChainOutput ==
    (Returned /\ result.tag = "Ok" /\ calls # <<>> /\ files.out.tag = "Loc") =>
        result.file = SingleFile(StaticFile(files.out.path))

\* C6 amended: when the chain's output is Loc(p), a stage is enabled and every
\* stage succeeds, execute returns Single(Static(p)) if the last enabled stage
\* is a function stage or a subprocess stage whose output file spec is not
\* NoFileUsed, whatever that stage's own output; for a subprocess stage with
\* output file spec NoFileUsed it returns NoActualFile.
C6_ReturnsChainOutputIfFileUsed ==
    (Returned /\ result.tag = "Ok" /\ calls # <<>> /\ files.out.tag = "Loc") =>
        LET last == chain[LastEnabled]
        IN  result.file = IF last.kind = "Exec" /\ last.outspec = "NoFileUsed"
                          THEN NoActualFile
                          ELSE SingleFile(StaticFile(files.out.path))

\* the last enabled stage is a subprocess stage configured with a temp output,
\* and execute returned the chain's p
C6_Witness ==
    /\ Returned /\ result.tag = "Ok" /\ calls # <<>>
    /\ files.out = Loc("p")
    /\ pre.chain[LastEnabled].kind = "Exec"
    /\ pre.chain[LastEnabled].files.out = Temp("o")
    /\ result.file = SingleFile(StaticFile("p"))

\* C11: if materialization or the Executor fails for enabled stage k, execute
\* returns that stage's error, stage k is not tried again, and no stage after k
\* is handed to the Executor in that execute (a stage whose materialization
\* failed is not handed to the Executor at all).
C11_FailureEndsExecute ==
    failed.idx # 0 =>
        /\ pc = "idle" /\ result.tag = "Err"
        /\ failed.idx \in Stages \ opstate
        /\ \A k \in 1..Len(calls) : calls[k].idx <= failed.idx
        /\ Cardinality({k \in 1..Len(calls) : calls[k].idx = failed.idx})
              = IF failed.at = "run" THEN 1 ELSE 0

\* the first of two enabled stages was handed to the Executor and failed
C11_Witness ==
    /\ failed.idx = 1 /\ failed.at = "run"
    /\ Len(chain) = 2 /\ opstate = {}
    /\ Len(calls) = 1 /\ result.tag = "Err"

\* the directory combination of C12, on unset (None) or set (Some) directories
combine(a, b) ==
    CASE a = None /\ b = None -> None
      [] a = None /\ b # None -> b
      [] a # None /\ b = None -> a
      [] a # None /\ b # None ->
            IF b[1].abs THEN b
            ELSE Some([abs |-> a[1].abs, segs |-> a[1].segs \o b[1].segs])

\* C12: the directory handed to the Executor for a stage is
\* combine(combine(E, C), S), E the directory argument of execute, C the
\* chain's directory, S the stage's directory, where combine(a, b) is b when a
\* is unset or b is absolute, a joined with b when b is relative, a when b is
\* unset, and unset when both are unset.
C12_StageRunsInCombinedDir ==
    \A k \in 1..Len(calls) :
        calls[k].dir = combine(combine(pre.cwd, files.in_dir),
                               chain[calls[k].idx].files.in_dir)

\* execute was given the relative directory e, the chain's directory is the
\* absolute C: the first stage, with relative directory s, ran in C/s and the
\* second stage, with absolute directory S, ran in S
C12_Witness ==
    /\ pre.cwd = Some(Rel(<<"e">>))
    /\ Len(calls) = 2
    /\ calls[1].dir = Some(Abs(<<"C", "s">>))
    /\ calls[2].dir = Some(Abs(<<"S">>))

\* the arguments by which a file spec names the paths pths: the paths
\* themselves for Append; for Option(flag) the flag and the paths joined by
\* commas, in one argument when the flag ends in "=", in two otherwise
Contribution(spec, pths) ==
    CASE spec.tag = "Append" -> pths
      [] spec.tag = "Option" ->
            IF spec.flag \in {"-i=", "-o="}
            THEN <<spec.flag \o join(pths, ",")>>
            ELSE <<spec.flag, join(pths, ",")>>
      [] spec.tag = "NoFileUsed" -> <<>>

\* the arguments handed to run_executable in the call c, cut into the
\* template's base args followed by the pushed args (head), the part for the
\* output, as long as the output's contribution, and the part for the inputs;
\* the output part comes first exactly when the output spec is Option and the
\* input spec is Append
ArgParts(c) ==
    LET op   == chain[c.idx]
        head == op.base_args \o cfg_args[c.idx]
        h    == Len(head)
        n    == Len(c.args)
        o    == Len(Contribution(get_outfile(op), c.outobs))
        outfirst == op.outspec = "Option" /\ op.inspec = "Append"
    IN  [fits  |-> n >= h + o,
         head  |-> SubSeq(c.args, 1, h),
         given |-> head,
         outp  |-> IF outfirst THEN SubSeq(c.args, h + 1, h + o)
                               ELSE SubSeq(c.args, n - o + 1, n),
         inp   |-> IF outfirst THEN SubSeq(c.args, h + o + 1, n)
                               ELSE SubSeq(c.args, h + 1, n - o)]

\* C13: the argument list handed to run_executable is the template's base
\* args, then the per-stage args in push order, then the file contributions:
\* the output contribution before the input contribution exactly when the
\* output spec is Option(_) and the input spec is Append (also when the flag
\* ends in "="), the input contribution before the output contribution in
\* every other combination of specs.
C13_ArgumentOrder ==
    \A k \in 1..Len(calls) :
        calls[k].kind = "Exec" =>
            LET c  == calls[k]
                op == chain[c.idx]
                ps == ArgParts(c)
            IN  /\ ps.fits
                /\ ps.head = ps.given
                /\ ps.outp = Contribution(get_outfile(op), c.outobs)
                /\ op.inspec = "Append" => ps.inp = c.inobs
                /\ (op.inspec = "Option" /\ c.inobs # <<>>) => ps.inp # <<>>

\* a stage with input Append and output Option("-o="), base argument -v and
\* pushed arguments -b, -a, ran with the output first; a stage with input and
\* output by option ran with the input first
C13_Witness ==
    /\ Len(calls) = 2
    /\ calls[1].args = <<"-v", "-b", "-a", "-o=out", "m1", "m2", "b">>
    /\ calls[2].args = <<"-v", "-i", "out", "-o", "p">>

\* C14: for a subprocess stage whose input (or output) spec is Option(flag) and
\* whose files resolve to the paths p1..pn, n >= 1, from one or from several
\* input FileArgs, the flag is emitted exactly once: as the single argument
\* flag+"p1,...,pn" when the flag ends in "=", otherwise as the two arguments
\* flag and "p1,...,pn".
C14_OptionFlagOnce ==
    \A k \in 1..Len(calls) :
        calls[k].kind = "Exec" =>
            LET c  == calls[k]
                op == chain[c.idx]
                ps == ArgParts(c)
            IN  /\ (op.inspec = "Option" /\ c.inobs # <<>>) =>
                      ps.inp = Contribution(get_inpfile(op), c.inobs)
                /\ (op.outspec = "Option" /\ c.outobs # <<>>) =>
                      ps.outp = Contribution(get_outfile(op), c.outobs)

\* the paths named by the Loc FileArgs of a list, as they were given
GivenPaths(fs) == {fs[j].path : j \in {i \in 1..Len(fs) : fs[i].tag = "Loc"}}
AllLoc(fs)     == \A j \in 1..Len(fs) : fs[j].tag = "Loc"

\* C15: the file paths placed in a stage's arguments, passed to a function
\* stage and threaded to the next stage are exactly the configured or produced
\* paths (the path of a Loc as given, the path of a temp file created in this
\* execute): they are never prefixed or otherwise combined with execute's
\* directory argument, the chain's directory or any stage's directory.
C15_PathsNotCombinedWithDirs ==
    \A k \in 1..Len(calls) :
        LET c     == calls[k]
            temps == {TempPath(t) : t \in ThisRun}
        IN  /\ Elems(c.inobs) \subseteq GivenPaths(c.inp) \cup temps
            /\ Elems(c.outobs) \subseteq GivenPaths(<<c.out>>) \cup temps
            /\ AllLoc(c.inp) => c.inobs = [j \in 1..Len(c.inp) |-> c.inp[j].path]
            /\ c.out.tag = "Loc" => c.outobs = <<c.out.path>>
            /\ c.kind = "Exec" =>
                  c.args = cfg_args[c.idx] \o c.inobs \o c.outobs
            /\ (k > 1 /\ c.idx \notin preset_inputs /\ calls[k - 1].outobs # <<>>) =>
                  GivenPaths(c.inp) = Elems(calls[k - 1].outobs) /\ AllLoc(c.inp)

\* execute was given a directory, the chain and the first stage have one: the
\* first stage, a subprocess, ran in C/s with the chain input c and a temp
\* output as its arguments, and the temp path was threaded to the second stage
C15_Witness ==
    /\ Len(calls) = 2
    /\ pre.cwd # None
    /\ calls[1].kind = "Exec"
    /\ calls[1].dir = Some(Abs(<<"C", "s">>))
    /\ \E t \in ThisRun :
          /\ calls[1].args = <<"c", TempPath(t)>>
          /\ calls[2].inp = <<Loc(TempPath(t))>>
          /\ calls[2].inobs = <<TempPath(t)>>

(***************************************************************************)
(* Properties of an EnvSpec.                                               *)
(***************************************************************************)
\* the nodes of a spec, the outermost first, without its terminator
RECURSIVE NodesOf(_)
NodesOf(e) ==
    IF IsTerminator(e) THEN <<>>
    ELSE <<[tag |-> e.tag, n |-> e.n, v |-> e.v, s |-> e.s]>> \o NodesOf(e.se)

RECURSIVE TerminatorOf(_)
TerminatorOf(e) == IF IsTerminator(e) THEN e ELSE TerminatorOf(e.se)

\* the number of nodes of kind tag for the variable n
Count(e, tag, n) ==
    Cardinality({k \in 1..Len(NodesOf(e)) : NodesOf(e)[k].tag = tag /\ NodesOf(e)[k].n = n})

\* C16: EnvSpec shadowing invariant: for every spec reachable from StdEnv or
\* BlankEnv by add, rmv, prepend, append and set_base, no node nested below an
\* EnvAdd(v) or an EnvRemove(v) refers to the variable v.
C16_NoReferenceBelowAddOrRemove ==
    LET ns == NodesOf(env)
    IN  \A i, j \in 1..Len(ns) :
            (i < j /\ ns[i].tag \in {"EnvAdd", "EnvRemove"}) => ns[j].n # ns[i].n

\* C17: EnvSpec collapse invariant: in every such spec each variable has at
\* most one EnvPrepend node and at most one EnvAppend node.
C17_OnePrependOneAppend ==
    \A n \in EnvNames :
        /\ Count(env, "EnvPrepend", n) <= 1
        /\ Count(env, "EnvAppend", n) <= 1

\* A has an EnvPrepend and an EnvAppend node, after two prepends and an append
C17_Witness ==
    /\ Len(envlog) = 3
    /\ envlog[1].op = "prepend" /\ envlog[2].op = "append" /\ envlog[3].op = "prepend"
    /\ \A k \in 1..3 : envlog[k].n = "A"
    /\ Count(env, "EnvPrepend", "A") = 1
    /\ Count(env, "EnvAppend", "A") = 1

\* the latest call and the spec it was made on
LastCall == envlog[Len(envlog)]

\* e2 is e1 with the value of node i replaced by v, and nothing else changed
OnlyValueReplaced(e1, e2, i, v) ==
    /\ TerminatorOf(e2) = TerminatorOf(e1)
    /\ Len(NodesOf(e2)) = Len(NodesOf(e1))
    /\ \A k \in 1..Len(NodesOf(e1)) :
          NodesOf(e2)[k] = IF k = i THEN [NodesOf(e1)[k] EXCEPT !.v = v] ELSE NodesOf(e1)[k]

\* C18: EnvSpec add-fold invariant: in every such spec a variable that has an
\* EnvAdd node has exactly one EnvAdd node and no EnvPrepend or EnvAppend node
\* anywhere in the spec; prepend and append on such a variable only change the
\* value held by that EnvAdd.
C18_AddAbsorbsPrependAppend ==
    /\ \A n \in EnvNames :
          Count(env, "EnvAdd", n) >= 1 =>
              /\ Count(env, "EnvAdd", n) = 1
              /\ Count(env, "EnvPrepend", n) = 0
              /\ Count(env, "EnvAppend", n) = 0
    /\ (envlog # <<>> /\ LastCall.op \in {"prepend", "append"}
          /\ Count(LastCall.from, "EnvAdd", LastCall.n) >= 1) =>
              \E i \in 1..Len(NodesOf(LastCall.from)) :
                  LET node == NodesOf(LastCall.from)[i]
                  IN  /\ node.tag = "EnvAdd" /\ node.n = LastCall.n
                      /\ OnlyValueReplaced(LastCall.from, env, i,
                             IF LastCall.op = "prepend"
                             THEN LastCall.v \o LastCall.s \o node.v
                             ELSE node.v \o LastCall.s \o LastCall.v)

\* is call k of the log the last call for its variable
IsLastFor(k) == \A l \in (k + 1)..Len(envlog) : envlog[l].n # envlog[k].n

\* the nodes of the last add or rmv call of each variable, laid over e in the
\* order of those calls, from call k on
RECURSIVE LastCallsOver(_, _)
LastCallsOver(e, k) ==
    IF k > Len(envlog) THEN e
    ELSE IF ~IsLastFor(k) THEN LastCallsOver(e, k + 1)
    ELSE IF envlog[k].op = "add"
         THEN LastCallsOver(EnvAdd(envlog[k].n, envlog[k].v, e), k + 1)
         ELSE LastCallsOver(EnvRemove(envlog[k].n, e), k + 1)

\* C19: a spec built by any sequence of add and rmv calls on a terminator is
\* structurally equal to the spec built by keeping, for each variable, only its
\* last add or rmv call, applied in the order of those last calls.
C19_AddRmvKeepLastCalls ==
    (envlog # <<>> /\ \A k \in 1..Len(envlog) : envlog[k].op \in {"add", "rmv"}) =>
        env = LastCallsOver(envlog[1].from, 1)

\* add(A), rmv(B), add(A) with another value on BlankEnv: the first add is gone
C19_Witness ==
    /\ Len(envlog) = 3
    /\ envlog[1].from = BlankEnv
    /\ envlog[1].op = "add" /\ envlog[1].n = "A" /\ envlog[1].v = "x"
    /\ envlog[2].op = "rmv" /\ envlog[2].n = "B"
    /\ envlog[3].op = "add" /\ envlog[3].n = "A" /\ envlog[3].v = "y"
    /\ env = EnvAdd("A", "y", EnvRemove("B", BlankEnv))

\* the nodes of e into which a prepend (append) of the variable n folds
FoldTargets(e, op, n) ==
    {i \in 1..Len(NodesOf(e)) :
        /\ NodesOf(e)[i].n = n
        /\ NodesOf(e)[i].tag \in {"EnvAdd", IF op = "prepend" THEN "EnvPrepend" ELSE "EnvAppend"}}

\* C20: prepend(v, x, sep) on a spec that already contains EnvPrepend(v, y, s')
\* or EnvAdd(v, y), at any depth, returns the same spec with only that node's
\* value replaced by x+sep+y; an EnvPrepend keeps its separator s'; no node is
\* added or removed and the order of all nodes is unchanged.  append is the
\* dual, with value y+sep+x folding into EnvAppend(v) or EnvAdd(v).
C20_PrependAppendFold ==
    (envlog # <<>> /\ LastCall.op \in {"prepend", "append"}
        /\ FoldTargets(LastCall.from, LastCall.op, LastCall.n) # {}) =>
            \E i \in FoldTargets(LastCall.from, LastCall.op, LastCall.n) :
                LET y == NodesOf(LastCall.from)[i].v
                IN  OnlyValueReplaced(LastCall.from, env, i,
                        IF LastCall.op = "prepend"
                        THEN LastCall.v \o LastCall.s \o y
                        ELSE y \o LastCall.s \o LastCall.v)

\* prepend(A, y, "+") on EnvAppend(A, x, ":") over EnvPrepend(A, x, ":"): the
\* nested EnvPrepend now holds y+x and still has the separator ":"
C20_Witness ==
    /\ Len(envlog) = 3
    /\ LastCall.op = "prepend" /\ LastCall.n = "A" /\ LastCall.v = "y" /\ LastCall.s = "+"
    /\ LastCall.from = EnvAppend("A", "x", ":", EnvPrepend("A", "x", ":", StdEnv))
    /\ env = EnvAppend("A", "x", ":", EnvPrepend("A", "y+x", ":", StdEnv))

\* the sequence sq without its element k
Without(sq, k) == [i \in 1..(Len(sq) - 1) |-> IF i < k THEN sq[i] ELSE sq[i + 1]]

\* the node a prepend (append) of LastCall's variable puts on top
NewNode ==
    [tag |-> IF LastCall.op = "prepend" THEN "EnvPrepend" ELSE "EnvAppend",
     n |-> LastCall.n, v |-> LastCall.v, s |-> LastCall.s]

\* the latest call is a prepend or an append that found no node to fold into
NoFoldTarget ==
    /\ envlog # <<>>
    /\ LastCall.op \in {"prepend", "append"}
    /\ FoldTargets(LastCall.from, LastCall.op, LastCall.n) = {}

\* the EnvRemove nodes of e for the variable n
RemovesOf(e, n) ==
    {i \in 1..Len(NodesOf(e)) : NodesOf(e)[i].tag = "EnvRemove" /\ NodesOf(e)[i].n = n}

RECURSIVE Reapplied(_, _, _)
Reapplied(ns, k, e) ==
    IF k = 0 THEN e
    ELSE LET nd == ns[k]
             e1 == CASE nd.tag = "EnvAdd"     -> add(e, nd.n, nd.v)
                     [] nd.tag = "EnvRemove"  -> rmv(e, nd.n)
                     [] nd.tag = "EnvPrepend" -> prepend(e, nd.n, nd.v, nd.s)
                     [] nd.tag = "EnvAppend"  -> append(e, nd.n, nd.v, nd.s)
         IN  Reapplied(ns, k - 1, e1)

\* C22: s.set_base(base) equals the spec obtained by starting from base and
\* re-applying the mutations of s, innermost first, through add, rmv, prepend
\* and append; the terminator of s is discarded and replaced by base, so the
\* mutations of s shadow or fold into the matching nodes of base.
C22_SetBaseReapplies ==
    (envlog # <<>> /\ LastCall.op = "set_base") =>
        /\ env = Reapplied(NodesOf(LastCall.from), Len(NodesOf(LastCall.from)), LastCall.base)
        /\ TerminatorOf(env) = TerminatorOf(LastCall.base)

\* BlankEnv.add(B, x).append(A, y, "+") set over a base that inherits and has
\* an EnvAppend(A) and an EnvPrepend(A): the terminator is the base's, the add
\* is laid over the base and the append is folded into the base's EnvAppend
C22_Witness ==
    /\ Len(envlog) = 3
    /\ LastCall.op = "set_base"
    /\ LastCall.from = EnvAppend("A", "y", "+", EnvAdd("B", "x", BlankEnv))
    /\ LastCall.base = EnvAppend("A", "x", ":", EnvPrepend("A", "y", "+", StdEnv))
    /\ env = EnvAdd("B", "x", EnvAppend("A", "x+y", ":", EnvPrepend("A", "y", "+", StdEnv)))

(***************************************************************************)
(* Properties of the environment of a child process.                       *)
(***************************************************************************)
HasSpawned == spawned # NotSpawned

\* the spec the calls before the latest spawn started from
StartOf(sp) == IF sp.at = <<>> THEN sp.espec ELSE sp.at[1].from

\* the calls before the latest spawn are adds on a clear_env, or on BlankEnv
BlankThenAdds(sp) ==
    \E k \in 0..Len(sp.at) :
        /\ IF k = 0 THEN StartOf(sp) = BlankEnv ELSE sp.at[k].op = "clear"
        /\ \A j \in (k + 1)..Len(sp.at) : sp.at[j].op = "add"

\* the value of the last add of n among the calls, None when there is none
LastAdded(log, n) ==
    LET ks == {k \in 1..Len(log) : log[k].op = "add" /\ log[k].n = n}
    IN  IF ks = {} THEN None
        ELSE Some(log[CHOOSE k \in ks : \A j \in ks : j <= k].v)

\* C23: for a spec built from BlankEnv (clear_env) followed by add(v, x) calls,
\* the environment the built-in Executor gives the child process contains
\* exactly the added variables with their last added values, and nothing
\* inherited from the parent process.
C23_BlankEnvGivesOnlyAdded ==
    (HasSpawned /\ BlankThenAdds(spawned)) =>
        \A n \in EnvNames : spawned.cenv[n] = LastAdded(spawned.at, n)

\* the nodes of e of kind tag for the variable n
NodesFor(e, tag, n) ==
    {i \in 1..Len(NodesOf(e)) : NodesOf(e)[i].tag = tag /\ NodesOf(e)[i].n = n}

\* C24: realization applies the mutations from the terminator outward to one
\* working environment: when a spec holds both EnvPrepend(v, p, sp) and
\* EnvAppend(v, a, sa) over an inherited variable v with value orig, the child
\* process sees both extensions, v = p+sp+orig+sa+a.
C24_PrependAndAppendBothSeen ==
    HasSpawned =>
        \A v \in EnvNames :
            LET ns == NodesOf(spawned.espec)
                ps == NodesFor(spawned.espec, "EnvPrepend", v)
                as == NodesFor(spawned.espec, "EnvAppend", v)
            IN  (/\ TerminatorOf(spawned.espec) = StdEnv
                 /\ spawned.penv[v] # None
                 /\ Cardinality(ps) = 1 /\ Cardinality(as) = 1
                 /\ NodesFor(spawned.espec, "EnvAdd", v) = {}
                 /\ NodesFor(spawned.espec, "EnvRemove", v) = {}) =>
                    LET pn == ns[CHOOSE i \in ps : TRUE]
                        an == ns[CHOOSE i \in as : TRUE]
                    IN  spawned.cenv[v] =
                            Some(pn.v \o pn.s \o spawned.penv[v][1] \o an.s \o an.v)

(***************************************************************************)
(* Properties of the functions of ActualFile.                              *)
(***************************************************************************)
\* the number of files an ActualFile holds
num_files(af) == Len(af.refs)

\* C25: ActualFile::extend satisfies extend(None, x) = x, extend(x, None) = x,
\* extend(Multi(a), Multi(b)) = Multi(a ++ b), and for every pair of values the
\* number of files in extend(a, b) is the number in a plus the number in b.
C25_ExtendLaws ==
    applied.fn = "extend" =>
        LET a == applied.args.a
            b == applied.args.b
            r == applied.r.af
        IN  /\ a = NoActualFile => r = b
            /\ b = NoActualFile => r = a
            /\ (a.tag = "MultiFile" /\ b.tag = "MultiFile") =>
                   r = MultiFile(a.refs \o b.refs)
            /\ num_files(r) = num_files(a) + num_files(b)

\* two MultiFiles extended: the entries of the second follow those of the first
C25_Witness ==
    /\ applied.fn = "extend"
    /\ applied.args.a = MultiFile(<<StaticFile("f1")>>)
    /\ applied.args.b = MultiFile(<<StaticFile("f2"), StaticFile("f1")>>)
    /\ applied.r.af = MultiFile(<<StaticFile("f1"), StaticFile("f2"), StaticFile("f1")>>)

\* C26: the files of a.extend(b) are the files of a followed by the files of
\* b, for every combination of variants (None, Single, Multi); hence the input
\* ActualFile built for a stage lists the files in the order of the stage's
\* input FileArgs.
C26_ExtendKeepsOrder ==
    applied.fn = "extend" =>
        applied.r.af.refs = applied.args.a.refs \o applied.args.b.refs

\* a Multi holds at least one entry, and no file is represented as None
WellFormed(af) ==
    /\ af.tag = "MultiFile" => num_files(af) >= 1
    /\ num_files(af) = 0 => af = NoActualFile

\* C27: every ActualFile produced by materialization (setup_file, a glob with
\* no match included) or by extend satisfies: a Multi holds at least one
\* entry; a result with no file is represented as None.
C27_MultiHasAnEntry ==
    /\ (applied.fn = "setup_file" /\ applied.r.ok) => WellFormed(applied.r.af)
    /\ (applied.fn = "extend" /\ WellFormed(applied.args.a) /\ WellFormed(applied.args.b)) =>
            WellFormed(applied.r.af)

\* C28: ActualFile::to_path returns a path exactly when the ActualFile holds
\* exactly one file; for an ActualFile holding no file it returns
\* ErrorMissingFile, for one holding several ErrorUnsupportedActualFile.
C28_ToPathIffOneFile ==
    applied.fn = "to_path" =>
        LET a == applied.args.a
        IN  /\ applied.r.ok <=> num_files(a) = 1
            /\ num_files(a) = 0 => applied.r.err = "ErrorMissingFile"
            /\ num_files(a) > 1 => applied.r.err = "ErrorUnsupportedActualFile"

(***************************************************************************)
(* Properties of the Executor's answers.                                   *)
(***************************************************************************)
\* the latest stage handed to the Executor
LastStage == calls[Len(calls)]

\* the error kind of each OsRunResult other than Good
ErrorKindOf(tag) ==
    CASE tag = "ExecFailed"   -> "ErrorCmdSetup"
      [] tag = "ExecError"    -> "ErrorRunningCmd"
      [] tag = "RunError"     -> "ErrorExecuting"
      [] tag = "BadDirectory" -> "ErrorBadDirectory"

\* a stage returns Ok, and its output ActualFile, exactly when its files were
\* materialized and the Executor answered Good
OkIffGood ==
    /\ \A k \in 1..Len(calls) :
          calls[k].res.tag # "Good" => (k = Len(calls) /\ failed.at = "run")
    /\ failed.at = "run" =>
          /\ calls # <<>> /\ LastStage.idx = failed.idx
          /\ LastStage.res.tag # "Good"
          /\ failed.err.kind = ErrorKindOf(LastStage.res.tag)
          /\ LastStage.res.tag = "ExecError" =>
                /\ failed.err.code = Some(LastStage.res.code)
                /\ failed.err.stderr = Some(LastStage.res.stderr)
    /\ (result.tag = "Ok" /\ calls # <<>>) =>
          /\ LastStage.res.tag = "Good"
          /\ PathsOf(result.file.refs) = LastStage.outobs

\* C30: a subprocess or function stage's execute returns Ok(output ActualFile)
\* exactly when materialization succeeds and the Executor returns Good; each
\* other OsRunResult maps to one fixed error kind (ExecFailed to ErrorCmdSetup,
\* ExecError to ErrorRunningCmd with the exit code and the captured stderr,
\* RunError to ErrorExecuting, BadDirectory to ErrorBadDirectory), each
\* carrying the arguments and the effective directory that were used.
C30_EveryErrorCarriesArgsAndDir ==
    /\ OkIffGood
    /\ failed.at = "run" =>
          /\ failed.err.args = Some(LastStage.args)
          /\ failed.err.dir = Some(LastStage.dir)

\* C30 as the code has it: ErrorCmdSetup, ErrorRunningCmd and ErrorExecuting
\* carry the arguments and the effective directory that were used;
\* ErrorBadDirectory carries neither, it carries the path the Executor
\* reported.
C30_ErrorsButBadDirectoryCarryArgsAndDir ==
    /\ OkIffGood
    /\ failed.at = "run" =>
          IF LastStage.res.tag = "BadDirectory"
          THEN /\ failed.err.args = None
               /\ failed.err.dir = None
               /\ failed.err.path = Some(LastStage.res.path)
          ELSE /\ failed.err.args = Some(LastStage.args)
               /\ failed.err.dir = Some(LastStage.dir)
               /\ failed.err.path = None

\* a subprocess stage run from the directory e exits with code 1: the error
\* has its arguments, that directory, the code and the stderr
C30_Witness ==
    /\ failed.at = "run"
    /\ LastStage.kind = "Exec" /\ LastStage.res.tag = "ExecError"
    /\ LastStage.dir = Some(Rel(<<"e">>))
    /\ Len(LastStage.args) = 2 /\ LastStage.args[1] = "-v"
    /\ failed.err = [kind |-> "ErrorRunningCmd", args |-> Some(LastStage.args),
                     dir |-> Some(Some(Rel(<<"e">>))), code |-> Some(1),
                     stderr |-> Some("e"), path |-> None]

\* what the dry run does whatever the Executor's answers are: no subprocess
\* is spawned and no callback invoked, a glob finds nothing, and a temp output
\* is a real file whose path is among the arguments
DryRunPretends ==
    /\ \A k \in 1..Len(calls) : ~calls[k].ran
    /\ globres # <<>> => globres[1] = GlobOk(<<>>)
    /\ \A k \in 1..Len(calls) :
          (\A i \in 1..Len(calls[k].inp) : calls[k].inp[i].tag = "GlobIn") =>
              calls[k].inobs = <<>>
    /\ (pc = "run" /\ chain[cur.idx].files.out.tag = "Temp") =>
          /\ cur.out.tag = "SingleFile" /\ cur.out.refs[1].kind = "TempFile"
          /\ cur.out.refs[1].id \in live
          /\ chain[cur.idx].kind = "Exec" => cur.out.refs[1].path \in Elems(cur.args)

RequiredTBD(op, fs) ==
    /\ op.kind = "Exec"
    /\ \/ op.inspec # "NoFileUsed" /\ \E k \in 1..Len(fs.inp) : fs.inp[k] = TBD
       \/ op.outspec # "NoFileUsed" /\ fs.out = TBD

\* C31: a subprocess stage whose input or output FileArg is still TBD at
\* execute, and whose file spec for it is Append, Option or ViaCall, fails
\* with ErrorMissingFile; run_executable is not called for that stage, and a
\* temp file created while materializing that stage is unlinked.
C31_RequiredTBDFailsWithMissingFile ==
    /\ \A k \in 1..Len(calls) : ~RequiredTBD(chain[calls[k].idx], calls[k])
    /\ pc = "run" => ~RequiredTBD(chain[cur.idx], chain[cur.idx].files)
    /\ failed.at = "setup" =>
          /\ RequiredTBD(chain[failed.idx], chain[failed.idx].files)
          /\ failed.err.kind = "ErrorMissingFile"
          /\ pc = "idle" /\ result.tag = "Err"
          /\ \A k \in 1..Len(calls) : calls[k].idx # failed.idx
          /\ live \cap ThisRun = {}

\* the first stage gives its output by option, before its input: the temp
\* output is created, then the TBD input ends the execute, nothing was run
C31_Witness ==
    /\ failed.at = "setup" /\ failed.idx = 1
    /\ chain[1].outspec = "Option" /\ chain[1].files.out = Temp("o")
    /\ chain[1].files.inp = <<TBD>>
    /\ nextTemp = pre.base + 1
    /\ failed.err.kind = "ErrorMissingFile"
    /\ calls = <<>> /\ live = {}

\* C33: the directory passed to a ViaCall callback is the working directory
\* in which the stage's tool is run: the effective directory handed to the
\* Executor for that stage, the stage's own set_dir included.
C33_ViaCallGetsTheStageDirectory ==
    \A k \in 1..Len(calls) :
        \A j \in 1..Len(calls[k].via) : calls[k].via[j] = calls[k].dir

(***************************************************************************)
(* What an execute leaves behind in the stages.                            *)
(***************************************************************************)
\* C34: the input-file mutations that execute performs on the stages are
\* unobservable: after execute returns, what the caller can query through the
\* chain or a stage handle (has_input_file, has_explicit_output_file) has the
\* value it had before the execute.
C34_ExecuteLeavesQueriesUnchanged ==
    (pc = "idle" /\ result.tag # "none") =>
        \A i \in 1..Len(chain) :
            /\ has_input_file(chain[i].files) = has_input_file(pre.chain[i].files)
            /\ has_explicit_output_file(chain[i].files)
                  = has_explicit_output_file(pre.chain[i].files)

\* the paths that the FileArgs fs stand for in the latest execute: the path
\* of a Loc, the temp files created in this execute for a Temp, the answer of
\* glob_search for a GlobIn
PathsFor(fs) ==
    {fs[k].path : k \in {j \in 1..Len(fs) : fs[j].tag = "Loc"}}
    \cup (IF \E k \in 1..Len(fs) : fs[k].tag = "Temp"
          THEN {TempPath(t) : t \in ThisRun} ELSE {})
    \cup (IF (\E k \in 1..Len(fs) : fs[k].tag = "GlobIn") /\ globres # <<>>
          THEN Elems(globres[1].files) ELSE {})

\* C35: across any sequence of executes and active() calls, every input path
\* a stage observes in an execute is one the user configured, on the stage or
\* as chain input, or an output path produced earlier in that same execute;
\* it is never a path threaded in by a previous execute.
C35_InputsConfiguredOrFromThisExecute ==
    \A k \in 1..Len(calls) :
        \A p \in Elems(calls[k].inobs) :
            \/ p \in PathsFor(cfg_inp[calls[k].idx])
            \/ p \in PathsFor(files.inp)
            \/ \E j \in 1..(k - 1) : p \in Elems(calls[j].outobs)

\* C36: across any sequence of executes and active() toggles, a stage whose
\* input was preset by the user observes exactly that preset input list in
\* every execute in which it is not the first enabled stage of a chain that
\* has its own inputs, also after an earlier execute in which it was the first
\* enabled stage and received the chain's inputs.
C36_PresetInputsSurviveExecutes ==
    \A k \in 1..Len(calls) :
        (calls[k].idx \in preset_inputs
            /\ ~(calls[k].idx = pre.first /\ files.inp # <<>>)) =>
                calls[k].inp = cfg_inp[calls[k].idx]

(***************************************************************************)
(* The meaning of a sequence of EnvSpec calls.                             *)
(***************************************************************************)
\* one call applied to an environment e (a value or None for each name)
ApplyCall(c, e) ==
    CASE c.op = "add"     -> [e EXCEPT ![c.n] = Some(c.v)]
      [] c.op = "rmv"     -> [e EXCEPT ![c.n] = None]
      [] c.op = "prepend" ->
            [e EXCEPT ![c.n] = IF @ = None THEN Some(c.v) ELSE Some(c.v \o c.s \o @[1])]
      [] c.op = "append"  ->
            [e EXCEPT ![c.n] = IF @ = None THEN Some(c.v) ELSE Some(@[1] \o c.s \o c.v)]
      [] c.op = "clear"   -> [n \in EnvNames |-> None]

\* the calls of log applied one by one, in call order
RECURSIVE ApplyCalls(_, _)
ApplyCalls(log, e) ==
    IF log = <<>> THEN e ELSE ApplyCalls(Tail(log), ApplyCall(Head(log), e))

\* the environment of the terminator a spec was started from
BaseEnv(sp) == IF StartOf(sp) = BlankEnv THEN [n \in EnvNames |-> None] ELSE sp.penv

\* C40: normalization preserves meaning: for any sequence of add, rmv, prepend
\* and append calls on a base, the environment the child is given is the one
\* got by applying the calls one by one, in call order, to the base
\* environment (add sets, rmv deletes, prepend and append extend the current
\* value with the separator, or create the variable with the bare value).
C40_NormalizationPreservesMeaning ==
    (HasSpawned /\ \A k \in 1..Len(spawned.at) : spawned.at[k].op # "clear") =>
        spawned.cenv = ApplyCalls(spawned.at, BaseEnv(spawned))

(***************************************************************************)
(* What a builder call changes.                                            *)
(***************************************************************************)
\* a step of a call on a stage handle: no execute is running and a stage, the
\* activation map or preset_inputs changes while the chain keeps its length
HandleStep ==
    /\ pc = "idle" /\ pc' = "idle"
    /\ Len(chain') = Len(chain)
    /\ <<chain, opstate, preset_inputs>>' # <<chain, opstate, preset_inputs>>

\* stage j and its entries in the activation map and in preset_inputs stay
SameStage(j) ==
    /\ chain'[j] = chain[j]
    /\ (j \in opstate') = (j \in opstate)
    /\ (j \in preset_inputs') = (j \in preset_inputs)

\* C37: a builder call on a stage handle (push_arg, set_dir, set_output_file,
\* set_input_file, add_input_file, active) changes only the stage at the
\* handle's index and that index's entry in the activation map or in
\* preset_inputs; every other stage and the chain-level files are unchanged;
\* and push_op / push_call leave every stage already in the chain at its index,
\* as it was, so that a handle keeps designating its stage.
C37_HandleCallsChangeOneStage ==
    [][/\ HandleStep =>
            /\ files' = files
            /\ \E i \in 1..Len(chain) : \A j \in 1..Len(chain) : j # i => SameStage(j)
       /\ Len(chain') > Len(chain) =>
            /\ files' = files
            /\ \A j \in 1..Len(chain) : SameStage(j)]_vars

\* the first stage's handle was used for an argument, a directory, an output
\* and an input, and the second stage is as it was pushed
C37_Witness ==
    /\ Len(chain) = 2
    /\ chain[1].args = <<"-a">> /\ chain[1].files.in_dir = Some(Rel(<<"s">>))
    /\ chain[1].files.out = Loc("q") /\ chain[1].files.inp = <<Loc("x")>>
    /\ chain[2] \in Required.ops
    /\ preset_inputs = {1} /\ opstate = {1}

(***************************************************************************)
(* The execute lock and the exclusive borrow.                              *)
(***************************************************************************)
\* the callers whose execute of ch is between its lock and its return
InsideOf(ch) == {c \in Callers : Inside(c, ch)}

\* C32: two execute calls on the same chain never overlap: from the
\* acquisition of the chain's execute lock until the return of execute at most
\* one execute reads or writes the chain's stages, so the writes of one
\* execute are never interleaved with those of another; the lock of a chain is
\* held only by an execute of that chain, so executes of distinct chains do
\* not block each other.
C32_ExecutesOfAChainDoNotOverlap ==
    \A ch \in Chains :
        /\ Cardinality(InsideOf(ch)) <= 1
        /\ hist.muts[ch].last \notin hist.muts[ch].past
        /\ chlock[ch].writer => InsideOf(ch) # {}
        /\ chops[ch].borrowed => InsideOf(ch) # {}

\* the two chains are being executed at once, each in the middle of its
\* stages, the first chain by its second execute, which has written into the
\* stages after the first one did
C32_Witness ==
    /\ thr["t1"].at = "chain" /\ thr["t1"].ch = "a" /\ thr["t1"].id = 2
    /\ thr["t2"].at = "chain" /\ thr["t2"].ch = "b"
    /\ hist.muts["a"] = [last |-> 2, past |-> {1}]

\* C38: every return path of execute (the early None return when no stage is
\* enabled, a stage error, normal completion) releases the execute lock and
\* the exclusive borrow, so a later execute or handle call on the same chain
\* proceeds: the lock is free and not poisoned, the RefCell is not borrowed,
\* and no call is rejected, unless a panic unwound an execute or an execute is
\* running.
C38_ReturnsReleaseLockAndBorrow ==
    \A ch \in Chains :
        /\ InsideOf(ch) = {} => (~chlock[ch].writer /\ ~chops[ch].borrowed)
        /\ ~hist.unwound[ch] => (~chlock[ch].poisoned /\ ~hist.rejected[ch])
        /\ (hist.handle.ch = ch /\ hist.handle.failed) => hist.handle.during

\* after an execute of the first chain that returned early and one of the
\* second chain that returned an error, the next execute of each got the lock
\* and the borrow
C38_Witness ==
    /\ hist.rets["a"] = "none" /\ hist.rets["b"] = "err"
    /\ thr["t1"] = [at |-> "chain", ch |-> "a", id |-> 2, todo |-> <<MaxStages>>,
                    ran |-> <<>>]
    /\ thr["t2"].at = "chain" /\ thr["t2"].ch = "b" /\ thr["t2"].id = 2
    /\ ~hist.unwound["a"] /\ ~hist.unwound["b"]

\* C39: no builder mutation interleaves with a running execute: the stage
\* list, the activation map and the preset set are held exclusively from the
\* start of execute until it returns, so a handle call made while a stage is
\* running cannot change or read the stages; it fails, and the stages an
\* execute runs are those enabled when it started.
C39_NoHandleCallDuringExecute ==
    /\ \A c \in Callers :
          thr[c].at = "chain" =>
              thr[c].ran \o thr[c].todo =
                  EnabledFrom(MaxStages, chops[thr[c].ch].opstate, 1)
    /\ hist.handle.during => hist.handle.failed

\* a stage of the first chain called active() on a handle of its own chain
\* while it was running: the call failed and unwound the execute, the
\* activation map is as it was
C39_Witness ==
    /\ hist.handle = [ch |-> "a", during |-> TRUE, failed |-> TRUE]
    /\ hist.unwound["a"] /\ chlock["a"].poisoned
    /\ chops["a"] = Unborrowed
    /\ thr["t1"] = Outside /\ thr["t2"] = Outside

====
